---- MODULE Spec2Model ----
(***************************************************************************)
(* EmailCampaign: the discovery-and-verification pipeline.                 *)
(*                                                                         *)
(*   pattern_generator.py  normalize_name, generate_email_patterns         *)
(*   domain_finder.py      normalize_company_name, guess_domain_from_name, *)
(*                         find_domain                                     *)
(*   email_verifier.py     get_mx_records, verify_email_mx_only,           *)
(*                         verify_email_smtp, _check_smtp, _check_catch_all*)
(*   email_finder.py       find_email_for_contact, process_csv             *)
(*                                                                         *)
(* A Python str is a sequence of characters; a character is a one-element  *)
(* string, except the named characters "Eacute" (U+00C9) and "eacute"      *)
(* (U+00E9).                                                               *)
(***************************************************************************)
EXTENDS Integers, Sequences, FiniteSets, TLC

VARIABLES
    call,           \* the pure function under evaluation and its arguments
    ret,            \* what it returned
    concurrency,    \* LinkedInEmailFinder.concurrency
    verify,         \* LinkedInEmailFinder.verify
    contacts,       \* the rows of the input: first name, last name, company
    runpc,          \* where process_csv is
    semaphore,      \* the value of the asyncio.Semaphore of process_csv
    results,        \* process_csv's results list
    saved,          \* how many rows of df had a result at the last df.to_csv
    task,           \* per coroutine: its position and its locals
    cur,            \* the coroutine the event loop is running, NoTask between steps
    domain_cache,   \* LinkedInEmailFinder.domain_cache
    mx_cache,       \* email_verifier.mx_cache
    stats           \* LinkedInEmailFinder.stats

pureVars == <<call, ret>>
runVars == <<concurrency, verify, contacts, runpc, semaphore, results, saved>>
vars == <<call, ret, concurrency, verify, contacts, runpc, semaphore, results, saved,
          task, cur, domain_cache, mx_cache, stats>>

NoCall == [fn |-> "none"]
\* Python's None, where a string stands for the value; an absent str is <<>>
None == "None"
\* no coroutine
NoTask == 0
\* no ContactResult yet
NoResult == [verification_status |-> "none"]

(***************************************************************************)
(* Python str primitives                                                   *)
(***************************************************************************)
UpperAZ == <<"A","B","C","D","E","F","G","H","I","J","K","L","M",
             "N","O","P","Q","R","S","T","U","V","W","X","Y","Z">>
LowerAZ == <<"a","b","c","d","e","f","g","h","i","j","k","l","m",
             "n","o","p","q","r","s","t","u","v","w","x","y","z">>

IsLowerAZ(ch) == \E i \in 1..Len(LowerAZ) : LowerAZ[i] = ch

\* str.isspace / regex \s
IsSpace(ch) == ch \in {" ", "\t"}

\* str.lower, one character
Lower(ch) ==
    IF \E i \in 1..Len(UpperAZ) : UpperAZ[i] = ch
    THEN LowerAZ[CHOOSE i \in 1..Len(UpperAZ) : UpperAZ[i] = ch]
    ELSE IF ch = "Eacute" THEN "eacute" ELSE ch

LowerStr(s) == [i \in 1..Len(s) |-> Lower(s[i])]

RECURSIVE LStrip(_)
LStrip(s) == IF s # <<>> /\ IsSpace(Head(s)) THEN LStrip(Tail(s)) ELSE s

RECURSIVE RStrip(_)
RStrip(s) ==
    IF s # <<>> /\ IsSpace(s[Len(s)]) THEN RStrip(SubSeq(s, 1, Len(s) - 1)) ELSE s

\* str.strip()
Strip(s) == RStrip(LStrip(s))

EndsWith(s, t) == Len(t) <= Len(s) /\ SubSeq(s, Len(s) - Len(t) + 1, Len(s)) = t

RECURSIVE Flatten(_)
Flatten(ss) == IF ss = <<>> THEN <<>> ELSE Head(ss) \o Flatten(Tail(ss))

\* the sequences over S of length at most n
SeqsUpTo(S, n) == UNION {[1..k -> S] : k \in 0..n}

\* str.split(): the maximal runs of non-whitespace characters
RECURSIVE Split(_)
Split(s) ==
    LET t == LStrip(s) IN
    IF t = <<>> THEN <<>>
    ELSE LET n == IF \E i \in 1..Len(t) : IsSpace(t[i])
                  THEN (CHOOSE i \in 1..Len(t) :
                            IsSpace(t[i]) /\ \A j \in 1..(i - 1) : ~IsSpace(t[j])) - 1
                  ELSE Len(t)
         IN <<SubSeq(t, 1, n)>> \o Split(SubSeq(t, n + 1, Len(t)))

\* t in s  (substring test)
Contains(s, t) ==
    \E i \in 0..(Len(s) - Len(t)) : SubSeq(s, i + 1, i + Len(t)) = t

(***************************************************************************)
(* domain_finder.normalize_company_name                                    *)
(***************************************************************************)
\* the suffix regexes, in the order of the list: \s+ word opt? $
suffixes == <<
    [word |-> <<"i","n","c">>, opt |-> <<".">>],
    [word |-> <<"l","l","c">>, opt |-> <<".">>],
    [word |-> <<"l","t","d">>, opt |-> <<".">>],
    [word |-> <<"c","o","r","p">>, opt |-> <<".">>],
    [word |-> <<"c","o","r","p","o","r","a","t","i","o","n">>, opt |-> <<>>],
    [word |-> <<"c","o","m","p","a","n","y">>, opt |-> <<>>],
    [word |-> <<"c","o">>, opt |-> <<".">>],
    [word |-> <<"g","r","o","u","p">>, opt |-> <<>>],
    [word |-> <<"h","o","l","d","i","n","g">>, opt |-> <<"s">>],
    [word |-> <<"t","e","c","h","n","o","l","o","g","i","e","s">>, opt |-> <<>>],
    [word |-> <<"t","e","c","h","n","o","l","o","g","y">>, opt |-> <<>>],
    [word |-> <<"s","o","l","u","t","i","o","n","s">>, opt |-> <<>>],
    [word |-> <<"s","e","r","v","i","c","e","s">>, opt |-> <<>>],
    [word |-> <<"i","n","t","e","r","n","a","t","i","o","n","a","l">>, opt |-> <<>>],
    [word |-> <<"w","o","r","l","d","w","i","d","e">>, opt |-> <<>>],
    [word |-> <<"g","l","o","b","a","l">>, opt |-> <<>>] >>

\* s matches \s+ w $ somewhere: it ends with w, after at least one blank
MatchesSuffix(s, w) ==
    /\ EndsWith(s, w)
    /\ Len(s) > Len(w)
    /\ IsSpace(s[Len(s) - Len(w)])

\* re.sub(r'\s+' word opt? '$', '', s): the leftmost match is cut, and it
\* starts at the first blank of the run before the word
SubSuffix(s, sfx) ==
    LET full == sfx.word \o sfx.opt IN
    IF MatchesSuffix(s, full)
    THEN RStrip(SubSeq(s, 1, Len(s) - Len(full)))
    ELSE IF MatchesSuffix(s, sfx.word)
    THEN RStrip(SubSeq(s, 1, Len(s) - Len(sfx.word)))
    ELSE s

\* re.sub(r',.*$', '', s): everything from the first comma on is cut
SubCommaClause(s) ==
    IF \E i \in 1..Len(s) : s[i] = ","
    THEN SubSeq(s, 1, (CHOOSE i \in 1..Len(s) :
                          s[i] = "," /\ \A j \in 1..(i - 1) : s[j] # ",") - 1)
    ELSE s

\* for suffix in suffixes: normalized = re.sub(suffix, '', normalized), the
\* first k regexes applied in the order of the list
RECURSIVE ApplySuffixes(_, _)
ApplySuffixes(s, k) ==
    IF k = 0 THEN s ELSE SubSuffix(ApplySuffixes(s, k - 1), suffixes[k])

normalize_company_name(company) ==
    Strip(SubCommaClause(ApplySuffixes(Strip(LowerStr(company)), Len(suffixes))))

(***************************************************************************)
(* pattern_generator.normalize_name, generate_email_patterns               *)
(***************************************************************************)
\* unidecode, one character: the ASCII transliteration
Unidecode(ch) ==
    IF ch = "Eacute" THEN <<"E">> ELSE IF ch = "eacute" THEN <<"e">> ELSE <<ch>>

UnidecodeStr(s) == Flatten([i \in 1..Len(s) |-> Unidecode(s[i])])

\* re.sub(r'[^a-z\s-]', '', name)
RECURSIVE DropSpecial(_)
DropSpecial(s) ==
    IF s = <<>> THEN <<>>
    ELSE IF IsLowerAZ(Head(s)) \/ IsSpace(Head(s)) \/ Head(s) = "-"
    THEN <<Head(s)>> \o DropSpecial(Tail(s))
    ELSE DropSpecial(Tail(s))

\* name.replace('-', ' ')
HyphenToSpace(s) == [i \in 1..Len(s) |-> IF s[i] = "-" THEN " " ELSE s[i]]

normalize_name(name) ==
    IF name = <<>> THEN <<>>
    ELSE Strip(HyphenToSpace(DropSpecial(Strip(LowerStr(UnidecodeStr(name))))))

\* the first part taken for the surname
SurnameFirstPart(last_parts) == last_parts[1]

\* the surname token: last_parts[-1]
SurnamePart(last_parts) == last_parts[Len(last_parts)]

\* the 16 local parts, in the order of the list
LocalParts(f, l) ==
    LET fi == <<f[1]>>
        li == <<l[1]>>
    IN << f \o <<".">> \o l,
          f \o l,
          fi \o l,
          f \o <<"_">> \o l,
          f,
          l,
          f \o li,
          fi \o <<".">> \o l,
          l \o <<".">> \o f,
          l \o f,
          l \o fi,
          fi \o li,
          f \o <<"-">> \o l,
          l \o <<"-">> \o f,
          fi \o <<"_">> \o l,
          f \o <<".">> \o li >>

generate_email_patterns(first_name, last_name, domain) ==
    LET first == normalize_name(first_name)
        last == normalize_name(last_name)
    IN IF first = <<>> \/ last = <<>> \/ domain = <<>> THEN <<>>
       ELSE LET first_parts == Split(first)
                last_parts == Split(last)
                f == IF first_parts # <<>> THEN first_parts[1] ELSE <<>>
                l == IF last_parts # <<>> THEN SurnamePart(last_parts) ELSE <<>>
            IN IF f = <<>> \/ l = <<>> THEN <<>>
               ELSE LET patterns == LocalParts(f, l)
                    IN [i \in 1..Len(patterns) |-> patterns[i] \o <<"@">> \o domain]

(***************************************************************************)
(* The values of the parts of the state a specification does not use       *)
(***************************************************************************)
EmptyMap == [x \in {} |-> None]

\* email_finder.py lines 44-51
ZeroStats ==
    [total |-> 0, found |-> 0, verified |-> 0, catch_all |-> 0,
     no_domain |-> 0, no_match |-> 0]

InitNoFn == call = NoCall /\ ret = <<>>

InitNoRun ==
    /\ concurrency = 0
    /\ verify = TRUE
    /\ contacts = <<>>
    /\ runpc = "idle"
    /\ semaphore = 0
    /\ results = <<>>
    /\ saved = 0

(***************************************************************************)
(* Coroutines.  A coroutine runs from one await that suspends it to the    *)
(* next without any other coroutine running in between: cur names the one  *)
(* that is running, and is NoTask while the event loop is choosing.        *)
(***************************************************************************)
NContacts == 2

Contacts == 1..NContacts

IdleTask ==
    [ pc |-> "idle",
      company |-> <<>>, cache_key |-> <<>>, guessed |-> <<>>, searched |-> <<>>,
      domain |-> <<>>,
      i |-> 0, email |-> <<>>, result |-> NoResult,
      mx_hosts |-> <<>>, k |-> 0, hres |-> None, vres |-> None,
      connect |-> None, conn |-> "none", sent |-> <<>>, rcvd |-> <<>>,
      pending |-> None,
      \* history of the current call, for stating properties
      cached |-> FALSE, fdlog |-> <<>>, guess_dns |-> None, searched_dns |-> None,
      hostlog |-> <<>>, fallbacks |-> 0, heuristic |-> None, netops |-> {},
      probes |-> <<>>, sleeps |-> 0,
      calls |-> 0, order |-> 0 ]

(***************************************************************************)
(* email_verifier.quick_syntax_check                                       *)
(***************************************************************************)
IsAlpha(ch) == IsLowerAZ(ch) \/ \E n \in 1..Len(UpperAZ) : UpperAZ[n] = ch
IsDigit(ch) == ch \in {"0","1","2","3","4","5","6","7","8","9"}

\* a class of local-part characters without the underscore
IsLocalCharNoUnderscore(ch) == IsAlpha(ch) \/ IsDigit(ch) \/ ch \in {".", "%", "+", "-"}

\* [a-zA-Z0-9._%+-]
IsLocalChar(ch) == IsAlpha(ch) \/ IsDigit(ch) \/ ch \in {".", "_", "%", "+", "-"}
\* [a-zA-Z0-9.-]
IsDomainChar(ch) == IsAlpha(ch) \/ IsDigit(ch) \/ ch \in {".", "-"}

HasAt(s) == \E n \in 1..Len(s) : s[n] = "@"

\* re.match(r'^[a-zA-Z0-9._%+-]+@[a-zA-Z0-9.-]+\.[a-zA-Z]{2,}$', email)
quick_syntax_check(addr) ==
    \E at \in 2..Len(addr) : \E dot \in (at + 2)..(Len(addr) - 2) :
        /\ addr[at] = "@"
        /\ \A n \in 1..(at - 1) : IsLocalChar(addr[n])
        /\ \A n \in (at + 1)..(dot - 1) : IsDomainChar(addr[n])
        /\ addr[dot] = "."
        /\ \A n \in (dot + 1)..Len(addr) : IsAlpha(addr[n])

\* email.rsplit('@', 1)[1]
DomainOf(addr) ==
    LET at == CHOOSE n \in 1..Len(addr) :
                  addr[n] = "@" /\ \A m \in (n + 1)..Len(addr) : addr[m] # "@"
    IN SubSeq(addr, at + 1, Len(addr))

(***************************************************************************)
(* email_verifier.get_mx_records, verify_email_mx_only                     *)
(*                                                                         *)
(* A DNS answer to an MX query is a set of records <<preference,           *)
(* exchange>>; the empty set stands for any exception of the resolver      *)
(* (NXDOMAIN, no answer, timeout).  Exchanges are numbered in the order of *)
(* their host names.                                                       *)
(***************************************************************************)
MxRecords == { <<10, 2>>, <<10, 1>>, <<5, 3>> }
\* the last answer names one exchanger twice, with two preference values
MxAnswers == { {}, {<<10, 1>>}, {<<10, 2>>, <<10, 1>>}, MxRecords,
               {<<10, 1>>, <<20, 1>>} }

\* an order by host name first
HostLess(a, b) == a[2] < b[2] \/ (a[2] = b[2] /\ a[1] < b[1])

\* the order of Python tuples (preference, exchange)
TupleLess(a, b) == a[1] < b[1] \/ (a[1] = b[1] /\ a[2] < b[2])

\* sorted(...)
RECURSIVE Sorted(_)
Sorted(S) ==
    IF S = {} THEN <<>>
    ELSE LET m == CHOOSE x \in S : \A y \in S \ {x} : TupleLess(x, y)
         IN <<m>> \o Sorted(S \ {m})

\* [host for _, host in mx_hosts]
HostsOf(recs) == [n \in 1..Len(recs) |-> recs[n][2]]

\* a lookup whose failure is not handled
get_mx_records_unhandled(cache, dom, ans) ==
    IF dom \in DOMAIN cache
    THEN [hosts |-> cache[dom], cache |-> cache, queried |-> FALSE, raised |-> FALSE]
    ELSE IF ans = {}
    THEN [hosts |-> <<>>, cache |-> cache, queried |-> TRUE, raised |-> TRUE]
    ELSE [hosts |-> HostsOf(Sorted(ans)),
          cache |-> cache @@ (dom :> HostsOf(Sorted(ans))),
          queried |-> TRUE, raised |-> FALSE]

\* the list returned, the cache afterwards, whether DNS was queried, and
\* whether an exception leaves the function: none does (lines 41-42)
get_mx_records(cache, dom, ans) ==
    IF dom \in DOMAIN cache
    THEN [hosts |-> cache[dom], cache |-> cache, queried |-> FALSE, raised |-> FALSE]
    ELSE IF ans = {}
    THEN [hosts |-> <<>>, cache |-> cache, queried |-> TRUE, raised |-> FALSE]
    ELSE [hosts |-> HostsOf(Sorted(ans)),
          cache |-> cache @@ (dom :> HostsOf(Sorted(ans))),
          queried |-> TRUE, raised |-> FALSE]

\* a heuristic that asks DNS again instead of reading the cache
MxOnlyFreshLookup(cache, addr, ans) ==
    IF addr = <<>> \/ ~HasAt(addr)
    THEN [result |-> "INVALID", cache |-> cache, queried |-> FALSE, raised |-> FALSE]
    ELSE [result |-> IF ans # {} THEN "VALID" ELSE "INVALID",
          cache |-> cache, queried |-> TRUE, raised |-> FALSE]

\* lines 45-59
verify_email_mx_only(cache, addr, ans) ==
    IF addr = <<>> \/ ~HasAt(addr)
    THEN [result |-> "INVALID", cache |-> cache, queried |-> FALSE, raised |-> FALSE]
    ELSE LET r == get_mx_records(cache, DomainOf(addr), ans)
         IN [result |-> IF r.hosts # <<>> THEN "VALID" ELSE "INVALID",
             cache |-> r.cache, queried |-> r.queried, raised |-> r.raised]

(***************************************************************************)
(* email_verifier.verify_email_smtp                                        *)
(***************************************************************************)
\* mx_hosts[:2]
TopHosts(hosts) == SubSeq(hosts, 1, IF Len(hosts) < 2 THEN Len(hosts) ELSE 2)

\* lines 73-74: the format check
V_Entry(c) ==
    /\ cur = c
    /\ task[c].pc = "v_entry"
    /\ IF task[c].email = <<>> \/ ~HasAt(task[c].email)
       THEN task' = [task EXCEPT ![c].vres = "INVALID", ![c].pc = "v_done"]
       ELSE task' = [task EXCEPT ![c].pc = "v_resolve"]
    /\ UNCHANGED <<pureVars, runVars, cur, domain_cache, mx_cache, stats>>

\* lines 76-81: the MX lookup; an exception of get_mx_records would leave
\* verify_email_smtp and find_email_for_contact, which have no handler for it
V_ResolveMX(c, ans) ==
    /\ cur = c
    /\ task[c].pc = "v_resolve"
    /\ LET r == get_mx_records(mx_cache, DomainOf(task[c].email), ans)
           t == [task[c] EXCEPT
                    !.mx_hosts = r.hosts,
                    !.netops = @ \cup (IF r.queried THEN {"dns_mx"} ELSE {})]
       IN /\ mx_cache' = r.cache
          /\ IF r.raised
             THEN task' = [task EXCEPT ![c] = [t EXCEPT !.pc = "fe_raise"]]
             ELSE IF r.hosts = <<>>
             THEN task' = [task EXCEPT ![c] = [t EXCEPT !.vres = "UNKNOWN",
                                                        !.pc = "v_done"]]
             ELSE task' = [task EXCEPT ![c] = [t EXCEPT !.k = 0, !.pc = "v_hosts"]]
    /\ UNCHANGED <<pureVars, runVars, cur, domain_cache, stats>>

\* lines 84-86: the next of the top two hosts is tried; _check_smtp runs to
\* its first await, asyncio.open_connection
V_NextHost(c) ==
    /\ cur = c
    /\ task[c].pc = "v_hosts"
    /\ IF task[c].k < Len(TopHosts(task[c].mx_hosts))
       THEN /\ task' = [task EXCEPT ![c].pc = "smtp",
                                    ![c].connect = None, ![c].conn = "none",
                                    ![c].sent = <<>>, ![c].rcvd = <<>>,
                                    ![c].pending = None, ![c].hres = None,
                                    ![c].netops = @ \cup {"connect"}]
            /\ cur' = NoTask
       ELSE /\ task' = [task EXCEPT ![c].pc = "v_fallback"]
            /\ UNCHANGED cur
    /\ UNCHANGED <<pureVars, runVars, domain_cache, mx_cache, stats>>

\* the reply code of the n-th read of a session, "-" when there was no reply
CodeAt(rcvd, n) ==
    IF Len(rcvd) >= n /\ rcvd[n] \notin {"timeout", "reset"}
    THEN IF rcvd[n] = "short" THEN ""
         ELSE IF rcvd[n] = "250-nonutf8" THEN "250"
         ELSE IF rcvd[n] = "550-nonutf8" THEN "550"
         ELSE rcvd[n]
    ELSE "-"

\* what is remembered of a host attempt once it has returned
HostRecord(t) ==
    [ host |-> t.mx_hosts[t.k + 1],
      connect |-> t.connect,
      greeting |-> CodeAt(t.rcvd, 1),
      helo |-> CodeAt(t.rcvd, 2),
      mail |-> CodeAt(t.rcvd, 3),
      rcpt |-> CodeAt(t.rcvd, 4),
      fake |-> CodeAt(t.rcvd, 5),
      fake_sent |-> \E n \in 1..Len(t.sent) : t.sent[n] = "RCPT TO fake",
      conn |-> t.conn,
      result |-> t.hres ]

\* lines 86-90: a host's result other than UNKNOWN is returned
V_HostResult(c) ==
    /\ cur = c
    /\ task[c].pc = "v_host_result"
    /\ LET t == [task[c] EXCEPT !.hostlog = Append(@, HostRecord(task[c]))]
       IN IF task[c].hres # "UNKNOWN"
          THEN task' = [task EXCEPT ![c] = [t EXCEPT !.vres = task[c].hres,
                                                     !.pc = "v_done"]]
          ELSE task' = [task EXCEPT ![c] = [t EXCEPT !.k = @ + 1, !.pc = "v_hosts"]]
    /\ UNCHANGED <<pureVars, runVars, cur, domain_cache, mx_cache, stats>>

\* a fallback that gives up instead of applying the heuristic
V_FallbackGivesUp(c, ans) ==
    /\ cur = c
    /\ task[c].pc = "v_fallback"
    /\ task' = [task EXCEPT ![c].vres = "UNKNOWN", ![c].pc = "v_done"]
    /\ UNCHANGED <<pureVars, runVars, cur, domain_cache, mx_cache, stats>>

\* line 93: the MX-only heuristic
V_Fallback(c, ans) ==
    /\ cur = c
    /\ task[c].pc = "v_fallback"
    /\ LET r == verify_email_mx_only(mx_cache, task[c].email, ans)
       IN /\ mx_cache' = r.cache
          /\ task' = [task EXCEPT
                         ![c].vres = r.result,
                         ![c].heuristic = r.result,
                         ![c].fallbacks = @ + 1,
                         ![c].netops = @ \cup (IF r.queried THEN {"dns_mx"} ELSE {}),
                         ![c].pc = IF r.raised THEN "fe_raise" ELSE "v_done"]
    /\ UNCHANGED <<pureVars, runVars, cur, domain_cache, stats>>

(***************************************************************************)
(* email_verifier._check_smtp, _check_catch_all                            *)
(*                                                                         *)
(* What a read of the connection gives: a reply line, or "short" (fewer    *)
(* than three bytes, b'' at end of file included), or the expiry of        *)
(* wait_for ("timeout"), or the exception of a connection reset by the     *)
(* peer ("reset").  "250-nonutf8" and "550-nonutf8" are replies whose text *)
(* after the code is not UTF-8.  What writer.drain() gives: "ok", or       *)
(* "reset", the ConnectionResetError of a connection lost since the last   *)
(* read.                                                                   *)
(***************************************************************************)
Replies == { "220", "250", "421", "450", "451", "550", "551", "552", "553", "554",
             "250-nonutf8", "550-nonutf8", "short" }
Failures == {"timeout", "reset"}
\* what the code tells apart at each read; the reply to RCPT TO is any reply
GreetingEvents == {"220", "554", "short"} \cup Failures
HeloEvents == {"250", "550"} \cup Failures
MailEvents == {"250", "550", "short"} \cup Failures
RcptEvents == Replies \cup Failures
FakeEvents == {"250", "250-nonutf8", "450", "550", "short"} \cup Failures
DrainEvents == {"ok", "reset"}
ConnectEvents == {"ok", "refused", "timeout"}

\* response[:3].decode() if len(response) >= 3 else ""
Code(reply) ==
    CASE reply = "short" -> ""
      [] reply = "250-nonutf8" -> "250"
      [] reply = "550-nonutf8" -> "550"
      [] OTHER -> reply

\* whether response.decode() returns
Decodable(reply) == reply \notin {"250-nonutf8", "550-nonutf8"}

Raised(ev) == ev \in Failures

\* a dialogue that makes the catch-all check whatever the reply
AlwaysCatchAllCheck(code) == "catch_all"

\* lines 132-143: the result for a reply code to RCPT TO, "catch_all" standing
\* for the call of _check_catch_all
RcptVerdict(code) ==
    IF code = "250" THEN "catch_all"
    ELSE IF code \in {"550", "551", "552", "553", "554"} THEN "INVALID"
    ELSE IF code = "450" \/ code = "451" THEN "UNKNOWN"
    ELSE "UNKNOWN"

\* the try block is left, by a return (what = the result) or by an exception
\* (what = "EXC"): the finally block is next
Leave(t, ev, what) ==
    [t EXCEPT !.rcvd = Append(@, ev),
              !.conn = IF ev = "reset" THEN "lost" ELSE @,
              !.pending = what,
              !.pc = "smtp_finally"]

\* the reply is read, the next command written and flushed
Proceed(t, ev, cmd, dr, next) ==
    [t EXCEPT !.rcvd = Append(@, ev),
              !.sent = Append(@, cmd),
              !.conn = IF dr = "reset" THEN "lost" ELSE @,
              !.pending = IF dr = "reset" THEN "EXC" ELSE @,
              !.pc = IF dr = "reset" THEN "smtp_finally" ELSE next]

SmtpFrame == UNCHANGED <<pureVars, runVars, domain_cache, mx_cache, stats>>

\* lines 100-103, 151-154: a connection that is refused or times out gives
\* UNKNOWN, outside the inner try
S_Connect(c, ev) ==
    /\ cur = NoTask
    /\ task[c].pc = "smtp"
    /\ IF ev = "ok"
       THEN /\ task' = [task EXCEPT ![c].connect = ev, ![c].conn = "open",
                                    ![c].pc = "smtp_greeting"]
            /\ UNCHANGED cur
       ELSE /\ task' = [task EXCEPT ![c].connect = ev, ![c].hres = "UNKNOWN",
                                    ![c].pc = "v_host_result"]
            /\ cur' = c
    /\ SmtpFrame

\* lines 107-113
S_Greeting(c, ev, dr) ==
    /\ cur = NoTask
    /\ task[c].pc = "smtp_greeting"
    /\ task' = [task EXCEPT ![c] =
                  IF Raised(ev) THEN Leave(@, ev, "EXC")
                  ELSE IF Code(ev) # "220" THEN Leave(@, ev, "UNKNOWN")
                  ELSE Proceed(@, ev, "HELO", dr, "smtp_helo")]
    /\ UNCHANGED cur
    /\ SmtpFrame

\* lines 114-118: the reply to HELO is read and not looked at
S_Helo(c, ev, dr) ==
    /\ cur = NoTask
    /\ task[c].pc = "smtp_helo"
    /\ task' = [task EXCEPT ![c] =
                  IF Raised(ev) THEN Leave(@, ev, "EXC")
                  ELSE Proceed(@, ev, "MAIL FROM", dr, "smtp_mail")]
    /\ UNCHANGED cur
    /\ SmtpFrame

\* lines 119-125
S_MailFrom(c, ev, dr) ==
    /\ cur = NoTask
    /\ task[c].pc = "smtp_mail"
    /\ task' = [task EXCEPT ![c] =
                  IF Raised(ev) THEN Leave(@, ev, "EXC")
                  ELSE IF Code(ev) # "250" THEN Leave(@, ev, "UNKNOWN")
                  ELSE Proceed(@, ev, "RCPT TO", dr, "smtp_rcpt")]
    /\ UNCHANGED cur
    /\ SmtpFrame

\* lines 126-143 and 159-162: the reply to RCPT TO; on 250 _check_catch_all
\* writes the RCPT TO of the made-up address, and an exception of its drain
\* is swallowed there (line 166), which gives VALID
S_RcptTo(c, ev, dr) ==
    /\ cur = NoTask
    /\ task[c].pc = "smtp_rcpt"
    /\ task' = [task EXCEPT ![c] =
                  IF Raised(ev) \/ ~Decodable(ev) THEN Leave(@, ev, "EXC")
                  ELSE IF RcptVerdict(Code(ev)) # "catch_all"
                  THEN Leave(@, ev, RcptVerdict(Code(ev)))
                  ELSE IF dr = "reset"
                  THEN [Leave(@, ev, "VALID") EXCEPT
                           !.sent = Append(@, "RCPT TO fake"), !.conn = "lost"]
                  ELSE Proceed(@, ev, "RCPT TO fake", dr, "smtp_fake")]
    /\ UNCHANGED cur
    /\ SmtpFrame

\* lines 163-167 and 135-137: the reply to the made-up address
S_CatchAll(c, ev) ==
    /\ cur = NoTask
    /\ task[c].pc = "smtp_fake"
    /\ task' = [task EXCEPT ![c] =
                  IF ~Raised(ev) /\ Code(ev) = "250"
                  THEN Leave(@, ev, "CATCH_ALL")
                  ELSE Leave(@, ev, "VALID")]
    /\ UNCHANGED cur
    /\ SmtpFrame

\* _check_smtp without its finally block: the result is returned as it is
S_ReturnWithoutFinally(c, dr) ==
    /\ cur = NoTask
    /\ task[c].pc = "smtp_finally"
    /\ task' = [task EXCEPT
                   ![c].hres = IF task[c].pending = "EXC" THEN "UNKNOWN"
                               ELSE task[c].pending,
                   ![c].pc = "v_host_result"]
    /\ cur' = c
    /\ SmtpFrame

\* lines 145-154: QUIT is written and flushed, the writer closed.  A drain
\* that raises (it does when the connection is lost) leaves the finally block
\* before writer.close(), and its exception replaces the result of the try
\* block: the outer except gives UNKNOWN
S_Finally(c, dr) ==
    /\ cur = NoTask
    /\ task[c].pc = "smtp_finally"
    /\ LET lost == task[c].conn = "lost" \/ dr = "reset"
       IN task' = [task EXCEPT
                      ![c].sent = Append(@, "QUIT"),
                      ![c].conn = IF lost THEN "lost" ELSE "closed",
                      ![c].hres = IF lost \/ task[c].pending = "EXC"
                                  THEN "UNKNOWN" ELSE task[c].pending,
                      ![c].pc = "v_host_result"]
    /\ cur' = c
    /\ SmtpFrame

\* _check_smtp as a whole, for a caller that does not follow the dialogue:
\* what the session comes to, "EXC" for any exception in it
CheckSmtpEvents == {"VALID", "INVALID", "CATCH_ALL", "UNKNOWN", "EXC"}

\* lines 151-154: except asyncio.TimeoutError, except Exception
SmtpCaught(ev) == IF ev = "EXC" THEN "UNKNOWN" ELSE ev

CheckSmtp(c, ev) ==
    /\ cur = NoTask
    /\ task[c].pc = "smtp"
    /\ task' = [task EXCEPT ![c].hres = SmtpCaught(ev),
                            ![c].pc = "v_host_result"]
    /\ cur' = c
    /\ SmtpFrame

(***************************************************************************)
(* domain_finder.guess_domain_from_name                                    *)
(***************************************************************************)
\* the dict, in the order of its items
KNOWN_DOMAINS == <<
    [key |-> <<"g","o","o","g","l","e">>,
     domain |-> <<"g","o","o","g","l","e",".","c","o","m">>],
    [key |-> <<"m","i","c","r","o","s","o","f","t">>,
     domain |-> <<"m","i","c","r","o","s","o","f","t",".","c","o","m">>],
    [key |-> <<"a","p","p","l","e">>,
     domain |-> <<"a","p","p","l","e",".","c","o","m">>],
    [key |-> <<"a","m","a","z","o","n">>,
     domain |-> <<"a","m","a","z","o","n",".","c","o","m">>],
    [key |-> <<"m","e","t","a">>,
     domain |-> <<"m","e","t","a",".","c","o","m">>],
    [key |-> <<"f","a","c","e","b","o","o","k">>,
     domain |-> <<"m","e","t","a",".","c","o","m">>],
    [key |-> <<"n","e","t","f","l","i","x">>,
     domain |-> <<"n","e","t","f","l","i","x",".","c","o","m">>],
    [key |-> <<"s","a","l","e","s","f","o","r","c","e">>,
     domain |-> <<"s","a","l","e","s","f","o","r","c","e",".","c","o","m">>],
    [key |-> <<"o","r","a","c","l","e">>,
     domain |-> <<"o","r","a","c","l","e",".","c","o","m">>],
    [key |-> <<"i","b","m">>,
     domain |-> <<"i","b","m",".","c","o","m">>],
    [key |-> <<"i","n","t","e","l">>,
     domain |-> <<"i","n","t","e","l",".","c","o","m">>],
    [key |-> <<"c","i","s","c","o">>,
     domain |-> <<"c","i","s","c","o",".","c","o","m">>],
    [key |-> <<"a","d","o","b","e">>,
     domain |-> <<"a","d","o","b","e",".","c","o","m">>],
    [key |-> <<"s","p","o","t","i","f","y">>,
     domain |-> <<"s","p","o","t","i","f","y",".","c","o","m">>],
    [key |-> <<"u","b","e","r">>,
     domain |-> <<"u","b","e","r",".","c","o","m">>],
    [key |-> <<"a","i","r","b","n","b">>,
     domain |-> <<"a","i","r","b","n","b",".","c","o","m">>],
    [key |-> <<"l","i","n","k","e","d","i","n">>,
     domain |-> <<"l","i","n","k","e","d","i","n",".","c","o","m">>],
    [key |-> <<"t","w","i","t","t","e","r">>,
     domain |-> <<"x",".","c","o","m">>],
    [key |-> <<"s","t","r","i","p","e">>,
     domain |-> <<"s","t","r","i","p","e",".","c","o","m">>],
    [key |-> <<"s","h","o","p","i","f","y">>,
     domain |-> <<"s","h","o","p","i","f","y",".","c","o","m">>],
    [key |-> <<"s","l","a","c","k">>,
     domain |-> <<"s","l","a","c","k",".","c","o","m">>],
    [key |-> <<"z","o","o","m">>,
     domain |-> <<"z","o","o","m",".","u","s">>],
    [key |-> <<"d","r","o","p","b","o","x">>,
     domain |-> <<"d","r","o","p","b","o","x",".","c","o","m">>],
    [key |-> <<"h","u","b","s","p","o","t">>,
     domain |-> <<"h","u","b","s","p","o","t",".","c","o","m">>],
    [key |-> <<"m","a","i","l","c","h","i","m","p">>,
     domain |-> <<"m","a","i","l","c","h","i","m","p",".","c","o","m">>],
    [key |-> <<"t","w","i","l","i","o">>,
     domain |-> <<"t","w","i","l","i","o",".","c","o","m">>],
    [key |-> <<"d","a","t","a","d","o","g">>,
     domain |-> <<"d","a","t","a","d","o","g","h","q",".","c","o","m">>],
    [key |-> <<"s","n","o","w","f","l","a","k","e">>,
     domain |-> <<"s","n","o","w","f","l","a","k","e",".","c","o","m">>],
    [key |-> <<"p","a","l","a","n","t","i","r">>,
     domain |-> <<"p","a","l","a","n","t","i","r",".","c","o","m">>] >>

\* the first item whose key is in the name or contains it, <<>> if none
RECURSIVE KnownDomain(_, _)
KnownDomain(normalized, n) ==
    IF n > Len(KNOWN_DOMAINS) THEN <<>>
    ELSE IF Contains(normalized, KNOWN_DOMAINS[n].key)
            \/ Contains(KNOWN_DOMAINS[n].key, normalized)
    THEN KNOWN_DOMAINS[n].domain
    ELSE KnownDomain(normalized, n + 1)

IsLowerAlnum(ch) == IsLowerAZ(ch) \/ IsDigit(ch)

\* re.sub(r'[^a-z0-9]', '', normalized)
Simple(normalized) == SelectSeq(normalized, IsLowerAlnum)

DotCom == <<".","c","o","m">>

guess_domain_from_name(company) ==
    LET normalized == normalize_company_name(company)
        known == KnownDomain(normalized, 1)
    IN IF known # <<>> THEN known
       ELSE IF Simple(normalized) # <<>> THEN Simple(normalized) \o DotCom
       ELSE <<>>

(***************************************************************************)
(* domain_finder.search_domain_duckduckgo                                  *)
(*                                                                         *)
(* The response of the search engine is [ok, netlocs]: ok is FALSE for an  *)
(* exception of the request or a status other than 200, netlocs are the    *)
(* network locations of the links of the page, in the order of the page.   *)
(***************************************************************************)
\* the responses considered
Responses ==
    { [ok |-> FALSE, netlocs |-> <<>>],
      [ok |-> TRUE, netlocs |-> <<>>],
      [ok |-> TRUE, netlocs |-> << <<"w","w","w",".","b","i","n","g",".","c","o","m">>,
                                   <<"W","W","W",".","A","b","c",".","i","o">> >>],
      [ok |-> TRUE, netlocs |-> << <<"a","-","-","-","b",".","i","o">> >>],
      [ok |-> TRUE, netlocs |-> << <<"a","b","c","_","x",".","i","o">> >>] }

skip == <<
    <<"d","u","c","k","d","u","c","k","g","o">>,
    <<"g","o","o","g","l","e">>,
    <<"b","i","n","g">>,
    <<"y","a","h","o","o">>,
    <<"w","i","k","i","p","e","d","i","a">>,
    <<"l","i","n","k","e","d","i","n",".","c","o","m">>,
    <<"f","a","c","e","b","o","o","k",".","c","o","m">>,
    <<"t","w","i","t","t","e","r",".","c","o","m">>,
    <<"y","o","u","t","u","b","e",".","c","o","m">>,
    <<"g","l","a","s","s","d","o","o","r">>,
    <<"i","n","d","e","e","d">>,
    <<"c","r","u","n","c","h","b","a","s","e">>,
    <<"b","l","o","o","m","b","e","r","g">> >>

Www == <<"w","w","w",".">>

\* domain.replace('www.', '')
RECURSIVE RemoveWww(_)
RemoveWww(s) ==
    IF s = <<>> THEN <<>>
    ELSE IF Len(s) >= Len(Www) /\ SubSeq(s, 1, Len(Www)) = Www
    THEN RemoveWww(SubSeq(s, Len(Www) + 1, Len(s)))
    ELSE <<Head(s)>> \o RemoveWww(Tail(s))

\* any(s in domain for s in skip)
Skipped(netloc) == \E n \in 1..Len(skip) : Contains(netloc, skip[n])

\* any(word in domain_base for word in normalized.split() if len(word) > 2)
NamesCompany(domain_base, normalized) ==
    LET words == Split(normalized)
    IN \E n \in 1..Len(words) : Len(words[n]) > 2 /\ Contains(domain_base, words[n])

\* the loop over the links
RECURSIVE FirstCompanyDomain(_, _)
FirstCompanyDomain(netlocs, normalized) ==
    IF netlocs = <<>> THEN <<>>
    ELSE LET domain == LowerStr(Head(netlocs))
         IN IF ~Skipped(domain) /\ NamesCompany(RemoveWww(domain), normalized)
            THEN RemoveWww(domain)
            ELSE FirstCompanyDomain(Tail(netlocs), normalized)

\* urls[:10]
MaxUrls == 10

search_domain_duckduckgo(company, response) ==
    IF ~response.ok THEN <<>>
    ELSE FirstCompanyDomain(
             SubSeq(response.netlocs, 1,
                    IF Len(response.netlocs) < MaxUrls THEN Len(response.netlocs)
                    ELSE MaxUrls),
             normalize_company_name(company))

(***************************************************************************)
(* domain_finder.verify_domain_exists                                      *)
(*                                                                         *)
(* What DNS has for the domain: "MX", "A" (an address but no MX record) or *)
(* "none" (both queries raise).  dns.resolver.resolve blocks: the          *)
(* coroutine does not suspend.                                             *)
(***************************************************************************)
DnsRecords == {"MX", "A", "none"}

\* a verification by MX records alone
OnlyMx(rec) == rec = "MX"

verify_domain_exists(rec) == rec \in {"MX", "A"}

\* the queries made
DomainQueries(rec) == IF rec = "MX" THEN {"dns_mx"} ELSE {"dns_mx", "dns_a"}

(***************************************************************************)
(* domain_finder.find_domain                                               *)
(***************************************************************************)
\* a cache that is never hit
CacheMisses(cache, cache_key) == FALSE

\* cache and cache_key in cache
CacheHit(cache, cache_key) == cache # EmptyMap /\ cache_key \in DOMAIN cache

\* cache[cache_key] = domain
Store(cache, cache_key, domain) ==
    [x \in DOMAIN cache \cup {cache_key} |->
        IF x = cache_key THEN domain ELSE cache[x]]

\* return domain
FdReturn(t, domain) ==
    [t EXCEPT !.domain = domain,
              !.pc = "fd_done",
              !.fdlog = Append(@, [key |-> t.cache_key, domain |-> domain,
                                   cached |-> t.cached, netops |-> t.netops])]

\* search_domain_duckduckgo runs to its await of session.get
FdSearch(t) == [t EXCEPT !.pc = "fd_search", !.netops = @ \cup {"web"}]

FdFrame == UNCHANGED <<pureVars, runVars, mx_cache, stats>>

\* lines 141-151: the blank company, the cache, the guess
FD_Entry(c) ==
    /\ cur = c
    /\ task[c].pc = "fd_entry"
    /\ LET company == task[c].company
           cache_key == normalize_company_name(company)
           guessed == guess_domain_from_name(company)
           t == [task[c] EXCEPT !.cache_key = cache_key,
                                !.cached = cache_key \in DOMAIN domain_cache]
       IN IF company = <<>> \/ Strip(company) = <<>>
          THEN /\ task' = [task EXCEPT ![c] = FdReturn(task[c], <<>>)]
               /\ UNCHANGED cur
          ELSE IF CacheHit(domain_cache, cache_key)
          THEN /\ task' = [task EXCEPT ![c] = FdReturn(t, domain_cache[cache_key])]
               /\ UNCHANGED cur
          ELSE IF guessed # <<>>
          THEN /\ task' = [task EXCEPT ![c] = [t EXCEPT !.guessed = guessed,
                                                        !.pc = "fd_verify_guess"]]
               /\ UNCHANGED cur
          ELSE /\ task' = [task EXCEPT ![c] = FdSearch(t)]
               /\ cur' = NoTask
    /\ UNCHANGED domain_cache
    /\ FdFrame

\* lines 152-156: the guess that DNS verifies is stored and returned
FD_VerifyGuess(c, rec) ==
    /\ cur = c
    /\ task[c].pc = "fd_verify_guess"
    /\ LET t == [task[c] EXCEPT !.netops = @ \cup DomainQueries(rec),
                                !.guess_dns = rec]
       IN IF verify_domain_exists(rec)
          THEN /\ domain_cache' = Store(domain_cache, t.cache_key, t.guessed)
               /\ task' = [task EXCEPT ![c] = FdReturn(t, t.guessed)]
               /\ UNCHANGED cur
          ELSE /\ task' = [task EXCEPT ![c] = FdSearch(t)]
               /\ cur' = NoTask
               /\ UNCHANGED domain_cache
    /\ FdFrame

\* line 159: the search engine has answered
FD_SearchReturn(c, response) ==
    /\ cur = NoTask
    /\ task[c].pc = "fd_search"
    /\ LET searched == search_domain_duckduckgo(task[c].company, response)
       IN task' = [task EXCEPT
                      ![c].searched = searched,
                      ![c].pc = IF searched # <<>> THEN "fd_verify_searched"
                                ELSE "fd_fallback"]
    /\ cur' = c
    /\ UNCHANGED domain_cache
    /\ FdFrame

\* lines 160-165: the searched domain that DNS verifies is stored and returned
FD_VerifySearched(c, rec) ==
    /\ cur = c
    /\ task[c].pc = "fd_verify_searched"
    /\ LET t == [task[c] EXCEPT !.netops = @ \cup DomainQueries(rec),
                                !.searched_dns = rec]
       IN IF verify_domain_exists(rec)
          THEN /\ domain_cache' = Store(domain_cache, t.cache_key, t.searched)
               /\ task' = [task EXCEPT ![c] = FdReturn(t, t.searched)]
          ELSE /\ task' = [task EXCEPT ![c] = [t EXCEPT !.pc = "fd_fallback"]]
               /\ UNCHANGED domain_cache
    /\ UNCHANGED cur
    /\ FdFrame

\* lines 167-173: the unverified guess, or nothing
FD_Fallback(c) ==
    /\ cur = c
    /\ task[c].pc = "fd_fallback"
    /\ IF task[c].guessed # <<>>
       THEN /\ domain_cache' = Store(domain_cache, task[c].cache_key, task[c].guessed)
            /\ task' = [task EXCEPT ![c] = FdReturn(task[c], task[c].guessed)]
       ELSE /\ task' = [task EXCEPT ![c] = FdReturn(task[c], <<>>)]
            /\ UNCHANGED domain_cache
    /\ UNCHANGED cur
    /\ FdFrame

(***************************************************************************)
(* email_finder.LinkedInEmailFinder.find_email_for_contact                 *)
(*                                                                         *)
(* Coroutine c works on row c of the input.  A cell of the input is a      *)
(* string, or NaN for an empty cell.                                       *)
(***************************************************************************)
NaN == <<"NaN">>

\* lines 199-201: str(row.get(...)).strip()
CellStr(cell) == Strip(IF cell = NaN THEN <<"n","a","n">> ELSE cell)

Row(c) ==
    [ first_name |-> CellStr(contacts[c].first_name),
      last_name |-> CellStr(contacts[c].last_name),
      company |-> CellStr(contacts[c].company) ]

\* a test that overlooks the last name
MissingFirstOrCompany(first_name, last_name, company) ==
    first_name = <<>> \/ company = <<>>

\* line 62: not first_name or not last_name or not company
MissingData(first_name, last_name, company) ==
    first_name = <<>> \/ last_name = <<>> \/ company = <<>>

\* a result without its domain
ResultWithoutDomain(c, domain, found_email, verification_status, patterns_tried) ==
    [ idx |-> c,
      domain |-> <<>>,
      found_email |-> found_email,
      verification_status |-> verification_status,
      patterns_tried |-> patterns_tried ]

ContactResult(c, domain, found_email, verification_status, patterns_tried) ==
    [ idx |-> c,
      domain |-> domain,
      found_email |-> found_email,
      verification_status |-> verification_status,
      patterns_tried |-> patterns_tried ]

\* patterns[:8]
MaxTried == 8

Patterns(c) ==
    generate_email_patterns(Row(c).first_name, Row(c).last_name, task[c].domain)

\* the list without the limit
WholeList(patterns) == patterns

\* patterns[:8]
Tried(patterns) ==
    SubSeq(patterns, 1, IF Len(patterns) < MaxTried THEN Len(patterns) ELSE MaxTried)

\* the candidate that was probed
ProbedCandidate(patterns, email) == email

\* line 143: found_email=patterns[0], the most common pattern
MostCommonPattern(patterns, email) == patterns[1]

\* return ContactResult(...)
FeReturn(result) ==
    [IdleTask EXCEPT !.pc = "fe_return", !.result = result]

FeFrame == UNCHANGED <<pureVars, runVars, domain_cache, mx_cache>>

\* lines 61-75: the contact with a missing field; the call of find_domain
FE_Entry(c) ==
    /\ cur = c
    /\ task[c].pc = "fe_entry"
    /\ IF MissingData(Row(c).first_name, Row(c).last_name, Row(c).company)
       THEN task' = [task EXCEPT ![c] =
                        FeReturn(
                                 ContactResult(c, <<>>, <<>>, "missing_data", 0))]
       ELSE task' = [task EXCEPT ![c].company = Row(c).company,
                                 ![c].pc = "fd_entry"]
    /\ UNCHANGED <<cur, stats>>
    /\ FeFrame

\* a finder that verifies whatever the flag
AlwaysVerifies(flag) == FALSE

\* line 103: if not self.verify
NotVerifying(flag) == ~flag

\* lines 76-113: no domain, no patterns, no verification
FE_AfterDomain(c) ==
    /\ cur = c
    /\ task[c].pc = "fd_done"
    /\ LET t == task[c]
           patterns == Patterns(c)
       IN IF t.domain = <<>>
          THEN /\ stats' = [stats EXCEPT !.no_domain = @ + 1]
               /\ task' = [task EXCEPT ![c] =
                              FeReturn(ContactResult(c, <<>>, <<>>, "no_domain", 0))]
          ELSE IF patterns = <<>>
          THEN /\ task' = [task EXCEPT ![c] =
                              FeReturn(ContactResult(c, t.domain, <<>>,
                                                        "no_patterns", 0))]
               /\ UNCHANGED stats
          ELSE IF NotVerifying(verify)
          THEN /\ stats' = [stats EXCEPT !.found = @ + 1]
               /\ task' = [task EXCEPT ![c] =
                              FeReturn(ContactResult(c, t.domain, patterns[1],
                                                        "unverified", 1))]
          ELSE /\ task' = [task EXCEPT ![c] =
                              [IdleTask EXCEPT !.pc = "fe_loop",
                                               !.company = t.company,
                                               !.domain = t.domain,
                                               !.i = 0]]
               /\ UNCHANGED stats
    /\ UNCHANGED cur
    /\ FeFrame

\* statistics that do not count the contacts without a match
CountNothing(s) == s

\* line 152: self.stats['no_match'] += 1
CountNoMatch(s) == [s EXCEPT !.no_match = @ + 1]

\* lines 116-120, 152-161: the next of the first eight patterns is probed,
\* unless its syntax is wrong; after the last, nothing was found
FE_LoopHead(c) ==
    /\ cur = c
    /\ task[c].pc = "fe_loop"
    /\ LET t == task[c]
           patterns == Patterns(c)
       IN IF t.i < Len(Tried(patterns))
          THEN /\ IF ~quick_syntax_check(patterns[t.i + 1])
                  THEN task' = [task EXCEPT ![c].i = @ + 1]
                  ELSE task' = [task EXCEPT ![c].email = patterns[t.i + 1],
                                            ![c].probes = Append(@, t.i),
                                            ![c].pc = "v_entry"]
               /\ UNCHANGED stats
          ELSE /\ stats' = CountNoMatch(stats)
               /\ task' = [task EXCEPT ![c] =
                              FeReturn(ContactResult(c, t.domain, <<>>, "not_found",
                                                        Len(Tried(patterns))))]
    /\ UNCHANGED cur
    /\ FeFrame

\* a loop without the delay: the next candidate follows at once
FE_ProbeResultNoDelay(c) ==
    /\ cur = c
    /\ task[c].pc = "v_done"
    /\ LET t == task[c]
           patterns == Patterns(c)
       IN IF t.vres = "VALID"
          THEN /\ stats' = [stats EXCEPT !.verified = @ + 1, !.found = @ + 1]
               /\ task' = [task EXCEPT ![c] =
                              FeReturn(ContactResult(c, t.domain, t.email,
                                                        "verified", t.i + 1))]
               /\ UNCHANGED cur
          ELSE IF t.vres = "CATCH_ALL"
          THEN /\ stats' = [stats EXCEPT !.catch_all = @ + 1, !.found = @ + 1]
               /\ task' = [task EXCEPT ![c] =
                              FeReturn(ContactResult(c, t.domain,
                                                        MostCommonPattern(patterns, t.email),
                                                        "catch_all", t.i + 1))]
               /\ UNCHANGED cur
          ELSE /\ task' = [task EXCEPT ![c] =
                              [IdleTask EXCEPT !.pc = "fe_loop",
                                               !.company = t.company,
                                               !.domain = t.domain,
                                               !.i = t.i + 1,
                                               !.probes = t.probes,
                                               !.sleeps = t.sleeps]]
               /\ UNCHANGED <<cur, stats>>
    /\ FeFrame

\* lines 122-149: VALID and CATCH_ALL end the loop, anything else is followed
\* by asyncio.sleep(0.5)
FE_ProbeResult(c) ==
    /\ cur = c
    /\ task[c].pc = "v_done"
    /\ LET t == task[c]
           patterns == Patterns(c)
       IN IF t.vres = "VALID"
          THEN /\ stats' = [stats EXCEPT !.verified = @ + 1, !.found = @ + 1]
               /\ task' = [task EXCEPT ![c] =
                              FeReturn(ContactResult(c, t.domain, t.email,
                                                        "verified", t.i + 1))]
               /\ UNCHANGED cur
          ELSE IF t.vres = "CATCH_ALL"
          THEN /\ stats' = [stats EXCEPT !.catch_all = @ + 1, !.found = @ + 1]
               /\ task' = [task EXCEPT ![c] =
                              FeReturn(ContactResult(c, t.domain,
                                                        MostCommonPattern(patterns, t.email),
                                                        "catch_all", t.i + 1))]
               /\ UNCHANGED cur
          ELSE /\ task' = [task EXCEPT ![c] =
                              [IdleTask EXCEPT !.pc = "fe_sleep",
                                               !.company = t.company,
                                               !.domain = t.domain,
                                               !.i = t.i,
                                               !.probes = t.probes,
                                               !.sleeps = t.sleeps]]
               /\ cur' = NoTask
               /\ UNCHANGED stats
    /\ FeFrame

\* a loop that ends after the first probe without an answer
FE_SleepEndsLoop(c) ==
    /\ cur = NoTask
    /\ task[c].pc = "fe_sleep"
    /\ stats' = [stats EXCEPT !.no_match = @ + 1]
    /\ task' = [task EXCEPT ![c] =
                   FeReturn(ContactResult(c, task[c].domain, <<>>, "not_found",
                                          Len(Tried(Patterns(c)))))]
    /\ cur' = c
    /\ FeFrame

\* line 150: the sleep is over
FE_SleepDone(c) ==
    /\ cur = NoTask
    /\ task[c].pc = "fe_sleep"
    /\ task' = [task EXCEPT ![c].i = @ + 1, ![c].sleeps = @ + 1,
                            ![c].pc = "fe_loop"]
    /\ cur' = c
    /\ UNCHANGED stats
    /\ FeFrame

(***************************************************************************)
(* email_finder.LinkedInEmailFinder.process_csv                            *)
(***************************************************************************)
\* line 224: len(results) % 50 == 0
CheckpointEvery == 50

ProcFrame == UNCHANGED <<pureVars, concurrency, verify, contacts, domain_cache, mx_cache>>

\* lines 185-215: the rows are counted, the semaphore and one task per row
\* are created; asyncio.Semaphore raises ValueError for a value below 0 and
\* takes any other
ProcessCsv ==
    /\ runpc = "idle"
    /\ cur = NoTask
    /\ contacts # <<>>
    /\ stats' = [stats EXCEPT !.total = Len(contacts)]
    /\ IF concurrency < 0
       THEN /\ runpc' = "config_error"
            /\ UNCHANGED <<semaphore, task>>
       ELSE /\ runpc' = "running"
            /\ semaphore' = concurrency
            /\ task' = [c \in DOMAIN contacts |-> [IdleTask EXCEPT !.pc = "created"]]
    /\ UNCHANGED <<cur, results, saved>>
    /\ ProcFrame

\* a semaphore that is never locked
NeverLocked(value) == TRUE

\* asyncio.Semaphore: acquire does not wait when the value is positive
CanAcquire(value) == value > 0

\* line 197: a task starts and acquires the semaphore, or waits for it
TaskStart(c) ==
    /\ cur = NoTask
    /\ runpc = "running"
    /\ task[c].pc = "created"
    /\ IF CanAcquire(semaphore)
       THEN /\ semaphore' = semaphore - 1
            /\ task' = [task EXCEPT ![c].pc = "fe_entry"]
            /\ cur' = c
       ELSE /\ task' = [task EXCEPT ![c].pc = "waiting"]
            /\ UNCHANGED <<semaphore, cur>>
    /\ UNCHANGED <<runpc, results, saved, stats>>
    /\ ProcFrame

\* line 197: a waiting task acquires the semaphore
TaskWake(c) ==
    /\ cur = NoTask
    /\ task[c].pc = "waiting"
    /\ CanAcquire(semaphore)
    /\ semaphore' = semaphore - 1
    /\ task' = [task EXCEPT ![c].pc = "fe_entry"]
    /\ cur' = c
    /\ UNCHANGED <<runpc, results, saved, stats>>
    /\ ProcFrame

\* how many tasks are done
Done == Cardinality({c \in DOMAIN task : task[c].pc \in {"returned", "failed", "collected"}})

\* a task that keeps its slot of the semaphore when it is done
TaskReturnKeepsSlot(c) ==
    /\ cur = c
    /\ task[c].pc \in {"fe_return", "fe_raise"}
    /\ task' = [task EXCEPT ![c] =
                   [IdleTask EXCEPT
                       !.pc = IF task[c].pc = "fe_return" THEN "returned" ELSE "failed",
                       !.result = task[c].result,
                       !.order = Done + 1]]
    /\ cur' = NoTask
    /\ UNCHANGED <<semaphore, runpc, results, saved, stats>>
    /\ ProcFrame

\* lines 197-204: the semaphore is released on the way out and the task is
\* done, with its result or with the exception that left it
TaskReturn(c) ==
    /\ cur = c
    /\ task[c].pc \in {"fe_return", "fe_raise"}
    /\ semaphore' = semaphore + 1
    /\ task' = [task EXCEPT ![c] =
                   [IdleTask EXCEPT
                       !.pc = IF task[c].pc = "fe_return" THEN "returned" ELSE "failed",
                       !.result = task[c].result,
                       !.order = Done + 1]]
    /\ cur' = NoTask
    /\ UNCHANGED <<runpc, results, saved, stats>>
    /\ ProcFrame

\* lines 215-225: the loop over as_completed takes the tasks in the order in
\* which they were done; the exception of a task is raised again by the await
Collect(c) ==
    /\ cur = NoTask
    /\ runpc = "running"
    /\ task[c].pc \in {"returned", "failed"}
    /\ task[c].order = Len(results) + 1
    /\ IF task[c].pc = "returned"
       THEN /\ results' = Append(results, task[c].result)
            /\ saved' = IF Len(results') % CheckpointEvery = 0
                        THEN Len(results') ELSE saved
            /\ UNCHANGED runpc
       ELSE /\ runpc' = "aborted"
            /\ UNCHANGED <<results, saved>>
    /\ task' = [task EXCEPT ![c].pc = "collected"]
    /\ UNCHANGED <<semaphore, cur, stats>>
    /\ ProcFrame

\* line 228: the final save
Finish ==
    /\ cur = NoTask
    /\ runpc = "running"
    /\ Len(results) = Len(contacts)
    /\ saved' = Len(results)
    /\ runpc' = "done"
    /\ UNCHANGED <<semaphore, results, task, cur, stats>>
    /\ ProcFrame

(***************************************************************************)
(* The pure functions, applied to bounded inputs                           *)
(***************************************************************************)
MaxPieces == 3
MaxNameChars == 4

CompanyPieces ==
    { <<"a","b">>, <<" ","i","n","c">>, <<" ","c","o","r","p">>, <<" ","C","o">>,
      <<".">>, <<",">>, <<" ">> }
CompanyInputs == {Flatten(ps) : ps \in SeqsUpTo(CompanyPieces, MaxPieces)}

NameChars == {"a", "B", " ", "-", "Eacute", "1"}
\* the (first name, last name) pairs of at most MaxNameChars characters in all
NameInputs ==
    UNION { [1..k -> NameChars] \X SeqsUpTo(NameChars, MaxNameChars - k) :
              k \in 0..MaxNameChars }
DomainInputs == { <<>>, <<"x",".","i","o">> }

InitFn ==
    /\ InitNoRun
    /\ task = [c \in Contacts |-> IdleTask]
    /\ cur = NoTask
    /\ domain_cache = EmptyMap
    /\ mx_cache = EmptyMap
    /\ stats = ZeroStats
    /\ ret = <<>>
    /\ call \in [fn : {"normalize_company_name"}, company : CompanyInputs]
          \cup { [fn |-> "generate_email_patterns",
                  first_name |-> p[1], last_name |-> p[2], domain |-> d] :
                  p \in NameInputs, d \in DomainInputs }

\* normalize_company_name applied to the company, then to its own result
ApplyNormalize ==
    /\ call.fn = "normalize_company_name"
    /\ Len(ret) < 2
    /\ ret' = Append(ret, normalize_company_name(
                              IF ret = <<>> THEN call.company ELSE ret[Len(ret)]))
    /\ UNCHANGED <<call, runVars, task, cur, domain_cache, mx_cache, stats>>

ApplyPatterns ==
    /\ call.fn = "generate_email_patterns"
    /\ ret = <<>>
    /\ ret' = <<generate_email_patterns(call.first_name, call.last_name, call.domain)>>
    /\ UNCHANGED <<call, runVars, task, cur, domain_cache, mx_cache, stats>>

NextFn == ApplyNormalize \/ ApplyPatterns

SpecFn == InitFn /\ [][NextFn]_vars

(***************************************************************************)
(* verify_email_smtp, called MaxProbes times in a row on addresses of      *)
(* ProbeEmails, against every behaviour of DNS and of the mail servers     *)
(***************************************************************************)
MaxProbes == 2

ProbeEmails ==
    { <<>>,
      <<"a","b">>,
      <<"a","@","x",".","i","o">>,
      <<"a","@","b","@","x",".","i","o">> }

InitProbe ==
    /\ InitNoFn
    /\ InitNoRun
    /\ task = [c \in Contacts |-> IdleTask]
    /\ cur = NoTask
    /\ domain_cache = EmptyMap
    /\ mx_cache = EmptyMap
    /\ stats = ZeroStats

\* line 62: the call
ProbeCall(c, addr) ==
    /\ c = 1
    /\ task[c].pc \in {"idle", "v_done"}
    /\ task[c].calls < MaxProbes
    /\ task' = [task EXCEPT ![c] = [IdleTask EXCEPT !.pc = "v_entry",
                                                    !.email = addr,
                                                    !.calls = task[c].calls + 1]]
    /\ cur' = c
    /\ UNCHANGED <<pureVars, runVars, domain_cache, mx_cache, stats>>

NextProbe ==
    \E c \in Contacts :
        \/ \E addr \in ProbeEmails : ProbeCall(c, addr)
        \/ V_Entry(c)
        \/ \E ans \in MxAnswers : V_ResolveMX(c, ans)
        \/ V_NextHost(c)
        \/ \E ev \in ConnectEvents : S_Connect(c, ev)
        \/ \E ev \in GreetingEvents, dr \in DrainEvents : S_Greeting(c, ev, dr)
        \/ \E ev \in HeloEvents, dr \in DrainEvents : S_Helo(c, ev, dr)
        \/ \E ev \in MailEvents, dr \in DrainEvents : S_MailFrom(c, ev, dr)
        \/ \E ev \in RcptEvents, dr \in DrainEvents : S_RcptTo(c, ev, dr)
        \/ \E ev \in FakeEvents : S_CatchAll(c, ev)
        \/ \E dr \in DrainEvents : S_Finally(c, dr)
        \/ V_HostResult(c)
        \/ \E ans \in MxAnswers : V_Fallback(c, ans)

SpecProbe == InitProbe /\ [][NextProbe]_vars

(***************************************************************************)
(* find_domain, called MaxCalls times in a row with one cache, each call   *)
(* after the previous one has returned, on the companies of                *)
(* DomainCompanies, against every behaviour of DNS and of the search       *)
(* engine                                                                  *)
(***************************************************************************)
MaxCalls == 3

DomainCompanies ==
    { <<>>,
      <<" ">>,
      <<"A","b","c"," ","I","n","c">>,
      <<"a","b","c"," ","c","o","r","p">>,
      <<"-","-","-">>,
      <<"M","e","t","a","l">> }

InitDomain ==
    /\ InitNoFn
    /\ InitNoRun
    /\ task = [c \in Contacts |-> IdleTask]
    /\ cur = NoTask
    /\ domain_cache = EmptyMap
    /\ mx_cache = EmptyMap
    /\ stats = ZeroStats

\* line 139: the call
DomainCall(c, company) ==
    /\ c = 1
    /\ task[c].pc \in {"idle", "fd_done"}
    /\ task[c].calls < MaxCalls
    /\ task' = [task EXCEPT ![c] = [IdleTask EXCEPT !.pc = "fd_entry",
                                                    !.company = company,
                                                    !.fdlog = task[c].fdlog,
                                                    !.calls = task[c].calls + 1]]
    /\ cur' = c
    /\ UNCHANGED <<pureVars, runVars, domain_cache, mx_cache, stats>>

NextDomain ==
    \E c \in Contacts :
        \/ \E company \in DomainCompanies : DomainCall(c, company)
        \/ FD_Entry(c)
        \/ \E rec \in DnsRecords : FD_VerifyGuess(c, rec)
        \/ \E response \in Responses : FD_SearchReturn(c, response)
        \/ \E rec \in DnsRecords : FD_VerifySearched(c, rec)
        \/ FD_Fallback(c)

SpecDomain == InitDomain /\ [][NextDomain]_vars

(***************************************************************************)
(* process_csv on NContacts rows, against every behaviour of DNS, of the   *)
(* search engine and of the mail servers, and every order in which the     *)
(* event loop runs the tasks                                               *)
(***************************************************************************)
Profiles == <<
    [first_name |-> <<"a">>, last_name |-> <<"b">>,
     company |-> <<"A","b","c"," ","I","n","c">>],
    [first_name |-> <<"a">>, last_name |-> <<" ">>,
     company |-> <<"A","b","c"," ","I","n","c">>],
    [first_name |-> <<"1">>, last_name |-> <<"b">>,
     company |-> <<"-","-","-">>] >>

\* the inputs: as the tasks start in any order, the rows are taken in the
\* order of Profiles
Sheets ==
    { [c \in Contacts |-> Profiles[f[c]]] :
        f \in { g \in [Contacts -> 1..Len(Profiles)] :
                    \A c \in Contacts : c > 1 => g[c - 1] <= g[c] } }

Concurrencies == {1, 2}

RunMxAnswers == { {}, {<<10, 1>>} }

InitRun ==
    /\ InitNoFn
    /\ concurrency \in Concurrencies
    /\ verify \in BOOLEAN
    /\ contacts \in Sheets
    /\ runpc = "idle"
    /\ semaphore = 0
    /\ results = <<>>
    /\ saved = 0
    /\ task = [c \in Contacts |-> IdleTask]
    /\ cur = NoTask
    /\ domain_cache = EmptyMap
    /\ mx_cache = EmptyMap
    /\ stats = ZeroStats

NextRun ==
    \/ ProcessCsv
    \/ Finish
    \/ \E c \in Contacts :
        \/ TaskStart(c)
        \/ TaskWake(c)
        \/ FE_Entry(c)
        \/ FD_Entry(c)
        \/ \E rec \in DnsRecords : FD_VerifyGuess(c, rec)
        \/ \E response \in Responses : FD_SearchReturn(c, response)
        \/ \E rec \in DnsRecords : FD_VerifySearched(c, rec)
        \/ FD_Fallback(c)
        \/ FE_AfterDomain(c)
        \/ FE_LoopHead(c)
        \/ V_Entry(c)
        \/ \E ans \in RunMxAnswers : V_ResolveMX(c, ans)
        \/ V_NextHost(c)
        \/ \E ev \in CheckSmtpEvents : CheckSmtp(c, ev)
        \/ V_HostResult(c)
        \/ \E ans \in RunMxAnswers : V_Fallback(c, ans)
        \/ FE_ProbeResult(c)
        \/ FE_SleepDone(c)
        \/ TaskReturn(c)
        \/ Collect(c)

SpecRun == InitRun /\ [][NextRun]_vars


(***************************************************************************)
(* process_csv with any concurrency bound the command line accepts         *)
(* (--concurrency is an int without a range): negative, zero, positive     *)
(***************************************************************************)
AnyConcurrencies == {-1, 0, 1}

InitConfig ==
    /\ InitNoFn
    /\ concurrency \in AnyConcurrencies
    /\ verify \in BOOLEAN
    /\ contacts \in Sheets
    /\ runpc = "idle"
    /\ semaphore = 0
    /\ results = <<>>
    /\ saved = 0
    /\ task = [c \in Contacts |-> IdleTask]
    /\ cur = NoTask
    /\ domain_cache = EmptyMap
    /\ mx_cache = EmptyMap
    /\ stats = ZeroStats

SpecConfig == InitConfig /\ [][NextRun]_vars

(***************************************************************************)
(* process_csv on a sheet of MaxRows rows that lack the last name: such a  *)
(* row is processed without a suspension (the semaphore is free, the       *)
(* result is returned before the first await).  The rows being alike, the  *)
(* tasks take their first step in the order of the rows.                   *)
(***************************************************************************)
MaxRows == 51

Rows == 1..MaxRows

InitSave ==
    /\ InitNoFn
    /\ concurrency \in Concurrencies
    /\ verify \in BOOLEAN
    /\ contacts = [c \in Rows |-> Profiles[2]]
    /\ runpc = "idle"
    /\ semaphore = 0
    /\ results = <<>>
    /\ saved = 0
    /\ task = [c \in Rows |-> IdleTask]
    /\ cur = NoTask
    /\ domain_cache = EmptyMap
    /\ mx_cache = EmptyMap
    /\ stats = ZeroStats

NextSave ==
    \/ ProcessCsv
    \/ Finish
    \/ \E c \in Rows :
        \/ (\A d \in 1..(c - 1) : task[d].pc # "created") /\ TaskStart(c)
        \/ FE_Entry(c)
        \/ TaskReturn(c)
        \/ Collect(c)

SpecSave == InitSave /\ [][NextSave]_vars
(***************************************************************************)
(* The claims                                                              *)
(***************************************************************************)

\* C1: with a concurrency bound N >= 1, at most N contacts are inside
\* find_email_for_contact in any state, hence at most N with a connection to
\* a mail server in flight and at most N with a domain resolution in flight.
OutsidePcs == {"idle", "created", "waiting", "returned", "failed", "collected"}

InFlight(pcs) == Cardinality({c \in Contacts : task[c].pc \in pcs})

C1_AtMostNInside ==
    concurrency >= 1 =>
        /\ Cardinality({c \in Contacts : task[c].pc \notin OutsidePcs}) <= concurrency
        /\ InFlight({"smtp"}) <= concurrency
        /\ InFlight({"fd_entry", "fd_verify_guess", "fd_search", "fd_verify_searched",
                     "fd_fallback"}) <= concurrency

C1_Witness ==
    /\ concurrency = 1
    /\ \E c, d \in Contacts : task[c].pc = "smtp" /\ task[d].pc = "waiting"

\* C2: a session with greeting 220, MAIL FROM 250, RCPT TO 250 for the target
\* and 250 for the made-up address makes the probe's outcome CATCH_ALL.
C2_CatchAllOutcome ==
    \A c \in Contacts :
        task[c].pc = "v_done" =>
            \A n \in 1..Len(task[c].hostlog) :
                LET h == task[c].hostlog[n]
                IN (h.greeting = "220" /\ h.mail = "250" /\ h.rcpt = "250"
                        /\ h.fake = "250")
                   => task[c].vres = "CATCH_ALL"

\* C3: greeting, HELO and MAIL FROM accepted, RCPT TO for the target 250 and
\* the RCPT TO for the made-up address answered with another code: the probe's
\* outcome is VALID.
C3_ValidOutcome ==
    \A c \in Contacts :
        task[c].pc = "v_done" =>
            \A n \in 1..Len(task[c].hostlog) :
                LET h == task[c].hostlog[n]
                IN (h.greeting = "220" /\ h.helo = "250" /\ h.mail = "250"
                        /\ h.rcpt = "250" /\ h.fake \in {"450", "550"})
                   => task[c].vres = "VALID"

\* C4: a 550..554 reply to the target's RCPT TO makes the probe's outcome
\* INVALID, with no RCPT TO for the made-up address in that session and no
\* exchanger contacted after it.
C4_InvalidOutcome ==
    \A c \in Contacts :
        task[c].pc = "v_done" =>
            \A n \in 1..Len(task[c].hostlog) :
                LET h == task[c].hostlog[n]
                IN h.rcpt \in {"550", "551", "552", "553", "554"}
                   => /\ task[c].vres = "INVALID"
                      /\ ~h.fake_sent
                      /\ n = Len(task[c].hostlog)

\* C5: when every connection attempted (to the top two exchangers at most) is
\* refused or times out, every host attempt gives UNKNOWN, the MX-only
\* heuristic is applied once, after the last of them, and its outcome is the
\* probe's.
AllRefused(t) ==
    /\ t.hostlog # <<>>
    /\ \A n \in 1..Len(t.hostlog) : t.hostlog[n].connect \in {"refused", "timeout"}

C5_RefusedThenFallback ==
    \A c \in Contacts :
        LET t == task[c]
        IN /\ (t.pc = "v_done" /\ AllRefused(t))
              => /\ \A n \in 1..Len(t.hostlog) : t.hostlog[n].result = "UNKNOWN"
                 /\ Len(t.hostlog) = Len(TopHosts(t.mx_hosts))
                 /\ t.fallbacks = 1
                 /\ t.vres = t.heuristic
           /\ t.fallbacks > 0
              => /\ t.fallbacks = 1
                 /\ Len(t.hostlog) = Len(TopHosts(t.mx_hosts))
                 /\ \A n \in 1..Len(t.hostlog) : t.hostlog[n].result = "UNKNOWN"

C5_Witness ==
    \E c \in Contacts :
        /\ task[c].pc = "v_done"
        /\ Len(task[c].hostlog) = 2
        /\ task[c].hostlog[1].connect = "refused"
        /\ task[c].hostlog[2].connect = "timeout"
        /\ task[c].fallbacks = 1
        /\ task[c].vres = "VALID"

\* C6: find_email_for_contact with an empty first name, last name or company
\* returns, in the one step of its call, the result missing_data with no
\* domain, no email and patterns_tried = 0; it resolves no domain, queries no
\* DNS, probes nothing, and changes no counter and neither cache.
HasEmptyField(c) ==
    \E field \in {"first_name", "last_name", "company"} : Row(c)[field] = <<>>

C6_MissingDataFrame ==
    [][\A c \in Contacts :
          (cur = c /\ task[c].pc = "fe_entry" /\ HasEmptyField(c)) =>
              /\ task'[c].pc = "fe_return"
              /\ task'[c].result = [idx |-> c, domain |-> <<>>, found_email |-> <<>>,
                                    verification_status |-> "missing_data",
                                    patterns_tried |-> 0]
              /\ task'[c].netops = {}
              /\ task'[c].fdlog = <<>>
              /\ task'[c].hostlog = <<>>
              /\ stats' = stats
              /\ domain_cache' = domain_cache
              /\ mx_cache' = mx_cache]_vars

C6_Witness ==
    \E c \in Contacts :
        /\ HasEmptyField(c)
        /\ task[c].pc = "fe_return"
        /\ task[c].result.verification_status = "missing_data"
        /\ stats.found = 1
        /\ domain_cache # EmptyMap
        /\ mx_cache # EmptyMap

\* C7: a find_domain call that finds its normalized company name in the cache
\* returns the domain that the first call to resolve that name returned, and
\* makes no DNS query and no web search.
C7_CacheHitReturnsFirst ==
    \A c \in Contacts :
        \A n \in 1..Len(task[c].fdlog) :
            LET log == task[c].fdlog
            IN log[n].cached =>
                /\ log[n].netops = {}
                /\ \E m \in 1..(n - 1) :
                       /\ log[m].key = log[n].key
                       /\ ~log[m].cached
                       /\ log[m].domain # <<>>
                       /\ \A j \in 1..(m - 1) :
                              log[j].key = log[n].key => log[j].domain = <<>>
                       /\ log[n].domain = log[m].domain

C7_Witness ==
    \E c \in Contacts :
        /\ task[c].pc = "fd_done"
        /\ Len(task[c].fdlog) = 2
        /\ task[c].fdlog[2].cached
        /\ task[c].company = <<"a","b","c"," ","c","o","r","p">>
        /\ task[c].domain = <<"a","b","c",".","i","o">>

\* C8: normalizing a normalized company name changes nothing.
C8_NormalizeIdempotent ==
    (call.fn = "normalize_company_name" /\ Len(ret) = 2) => ret[2] = ret[1]

\* C9: for names that normalize to something and a domain that is not empty,
\* the 16 addresses f.l, fl, fi+l, f_l, f, l, f+li, fi.l, l.f, lf, l+fi,
\* fi+li, f-l, l-f, fi_l, f.li at the domain, in this order, f the first
\* token of the given name and l the last token of the family name, hyphens
\* separating tokens; the empty list otherwise.
IsSeparator(ch) == IsSpace(ch) \/ ch = "-"

\* the letters kept of a name: transliterated, lower case, a-z and separators
RECURSIVE Kept(_)
Kept(s) ==
    IF s = <<>> THEN <<>>
    ELSE LET ch == Head(s)
         IN (IF IsLowerAZ(ch) \/ IsSeparator(ch) THEN <<ch>> ELSE <<>>)
                \o Kept(Tail(s))

\* the maximal runs of letters
RECURSIVE Tokens(_, _)
Tokens(s, run) ==
    IF s = <<>> THEN (IF run = <<>> THEN <<>> ELSE <<run>>)
    ELSE IF IsSeparator(Head(s))
    THEN (IF run = <<>> THEN <<>> ELSE <<run>>) \o Tokens(Tail(s), <<>>)
    ELSE Tokens(Tail(s), Append(run, Head(s)))

NameTokens(name) == Tokens(Kept(LowerStr(UnidecodeStr(name))), <<>>)

At(local, dom) == local \o <<"@">> \o dom

C9_SixteenPatterns ==
    (call.fn = "generate_email_patterns" /\ ret # <<>>) =>
        LET ft == NameTokens(call.first_name)
            lt == NameTokens(call.last_name)
            d == call.domain
        IN IF ft = <<>> \/ lt = <<>> \/ d = <<>>
           THEN ret[1] = <<>>
           ELSE LET f == ft[1]
                    l == lt[Len(lt)]
                    fi == <<f[1]>>
                    li == <<l[1]>>
                IN ret[1] = << At(f \o <<".">> \o l, d), At(f \o l, d), At(fi \o l, d),
                               At(f \o <<"_">> \o l, d), At(f, d), At(l, d),
                               At(f \o li, d), At(fi \o <<".">> \o l, d),
                               At(l \o <<".">> \o f, d), At(l \o f, d), At(l \o fi, d),
                               At(fi \o li, d), At(f \o <<"-">> \o l, d),
                               At(l \o <<"-">> \o f, d), At(fi \o <<"_">> \o l, d),
                               At(f \o <<".">> \o li, d) >>

C9_Witness ==
    /\ call.fn = "generate_email_patterns"
    /\ ret # <<>>
    /\ Len(ret[1]) = 16
    /\ call.last_name = <<"a", "-", "B">>
    /\ call.first_name = <<"Eacute">>
    /\ ret[1][1] = <<"e", ".", "b", "@", "x", ".", "i", "o">>

\* C10: whatever fails in the network, the run is never aborted, no contact
\* gets two results, a run in progress can always go on, and a run that is
\* done has exactly one result for each contact.
RunningPcs ==
    {"fe_entry", "fd_entry", "fd_verify_guess", "fd_verify_searched", "fd_fallback",
     "fd_done", "fe_loop", "v_entry", "v_resolve", "v_hosts", "v_host_result",
     "v_fallback", "v_done", "fe_return"}

CanGoOn ==
    IF cur # NoTask
    THEN task[cur].pc \in RunningPcs
    ELSE \/ Len(results) = NContacts
         \/ \E c \in Contacts :
                \/ task[c].pc \in {"created", "fd_search", "smtp", "fe_sleep"}
                \/ task[c].pc = "waiting" /\ semaphore > 0
                \/ task[c].pc = "returned" /\ task[c].order = Len(results) + 1

C10_OneResultPerContact ==
    /\ runpc # "aborted"
    /\ \A c \in Contacts : task[c].pc \notin {"fe_raise", "failed"}
    /\ \A m, n \in 1..Len(results) : results[m].idx = results[n].idx => m = n
    /\ \A n \in 1..Len(results) : results[n].idx \in Contacts
    /\ runpc = "running" => CanGoOn
    /\ runpc = "done" =>
           /\ Len(results) = NContacts
           /\ {results[n].idx : n \in 1..Len(results)} = Contacts

C10_Witness ==
    /\ runpc = "done"
    /\ \E n \in 1..Len(results) : results[n].verification_status = "not_found"
    /\ \E n \in 1..Len(results) : results[n].verification_status = "no_domain"


(***************************************************************************)
(* The loop over the candidates of one contact                             *)
(***************************************************************************)
\* the candidate whose probe has just returned: the last one probed
LastProbed(c) == task[c].probes[Len(task[c].probes)]

\* C11: when the probe of a candidate returns VALID, the loop of the contact
\* ends with that step: the contact returns (no later candidate is probed)
\* with status verified, found_email is the candidate that was probed, and
\* patterns_tried is the number of probes made for the contact, the
\* successful one included.
C11_ValidEndsLoop ==
    [][\A c \in Contacts :
        (task[c].pc = "v_done" /\ task[c].vres = "VALID" /\ task'[c] # task[c]) =>
            /\ task'[c].pc = "fe_return"
            /\ task'[c].result.verification_status = "verified"
            /\ task[c].email = Patterns(c)[LastProbed(c) + 1]
            /\ task'[c].result.found_email = task[c].email
            /\ task'[c].result.patterns_tried = Len(task[c].probes)]_vars

\* a contact verified at its third probe
C11_Witness ==
    \E c \in Contacts :
        /\ task[c].pc = "fe_return"
        /\ task[c].result.verification_status = "verified"
        /\ task[c].result.patterns_tried = 3
        /\ task[c].result.found_email =
               generate_email_patterns(Row(c).first_name, Row(c).last_name,
                                       task[c].result.domain)[3]

\* C12: when the probe of a candidate returns CATCH_ALL, the loop of the
\* contact ends with that step: the contact returns (no later candidate is
\* probed) with status catch_all, and found_email is element 0 of the
\* generated list, whichever candidate was probed.
C12_CatchAllEndsLoop ==
    [][\A c \in Contacts :
        (task[c].pc = "v_done" /\ task[c].vres = "CATCH_ALL" /\ task'[c] # task[c]) =>
            /\ task'[c].pc = "fe_return"
            /\ task'[c].result.verification_status = "catch_all"
            /\ task'[c].result.found_email = Patterns(c)[1]]_vars

\* a catch-all answer to the probe of the third candidate
C12_Witness ==
    \E c \in Contacts :
        LET patterns == generate_email_patterns(Row(c).first_name, Row(c).last_name,
                                                task[c].result.domain)
        IN /\ task[c].pc = "fe_return"
           /\ task[c].result.verification_status = "catch_all"
           /\ task[c].result.patterns_tried = 3
           /\ task[c].result.found_email = patterns[1]
           /\ patterns[3] # patterns[1]

(***************************************************************************)
(* The probe, verify_email_smtp                                            *)
(***************************************************************************)
\* the probes in progress or returned
Probing(c) == task[c].pc \notin {"idle", "fe_raise"}

\* C13: a probe of an address that fails the syntax check of local part and
\* domain makes no MX lookup and opens no connection, and returns INVALID.
C13_BadSyntaxNoNetwork ==
    \A c \in Contacts :
        (Probing(c) /\ ~quick_syntax_check(task[c].email)) =>
            /\ task[c].netops = {}
            /\ task[c].hostlog = <<>>
            /\ task[c].pc = "v_done" => task[c].vres = "INVALID"

(***************************************************************************)
(* The connection of a host attempt.  conn is "open" from the return of    *)
(* open_connection on, "closed" once writer.close() was called and         *)
(* awaited, and "lost" once the peer has reset it: the transport of a      *)
(* connection that is lost closes its socket before the exception reaches  *)
(* the coroutine, so a lost connection is a closed one.                    *)
(***************************************************************************)
\* where _check_smtp is between open_connection and its return
InSession == {"smtp_greeting", "smtp_helo", "smtp_mail", "smtp_rcpt", "smtp_fake",
              "smtp_finally"}

\* C14: a connection opened by a host attempt is closed before the attempt
\* returns, on every way out: no connection is open outside of _check_smtp,
\* and every attempt that has returned after a successful connect was left
\* with its connection closed by writer.close() or lost to a reset.
C14_ClosedOnReturn ==
    \A c \in Contacts :
        /\ task[c].pc \notin InSession => task[c].conn # "open"
        /\ \A n \in 1..Len(task[c].hostlog) :
               task[c].hostlog[n].connect = "ok" =>
                   task[c].hostlog[n].conn \in {"closed", "lost"}

\* a probe with two attempts: the first was reset by the peer while QUIT was
\* flushed after the reply 550 to RCPT TO, the second met a greeting 554 and
\* was closed by writer.close()
C14_Witness ==
    \E c \in Contacts :
        /\ Len(task[c].hostlog) = 2
        /\ task[c].hostlog[1].rcpt = "550"
        /\ task[c].hostlog[1].conn = "lost"
        /\ task[c].hostlog[2].greeting = "554"
        /\ task[c].hostlog[2].conn = "closed"


(***************************************************************************)
(* The concurrency bound                                                   *)
(***************************************************************************)
\* C15: a run with a concurrency bound of 0 or less ends with a
\* configuration error before any contact is processed: once process_csv
\* has gone past the creation of the semaphore, such a run is in error and
\* no task has entered find_email_for_contact.
C15_NonPositiveIsConfigError ==
    concurrency <= 0 =>
        /\ runpc \in {"idle", "config_error"}
        /\ \A c \in Contacts : task[c].pc \in {"idle", "created", "waiting"}

(***************************************************************************)
(* The cache of domains under concurrent contacts                          *)
(***************************************************************************)
\* C16: the cache of domains is written only where it holds nothing: no step
\* of a run changes or removes the domain the cache holds for a normalized
\* company name.
C16_WriteIfAbsent ==
    [][\A key \in DOMAIN domain_cache :
           /\ key \in DOMAIN domain_cache'
           /\ domain_cache'[key] = domain_cache[key]]_vars

(***************************************************************************)
(* The probes of one contact                                               *)
(***************************************************************************)
\* C17: a probe of a contact starts only with verification enabled and while
\* no probe of that contact is in progress (the contact is at the head of its
\* loop); the candidate is one of the first eight of the generated list, of
\* a higher index than every candidate probed before, and passes the syntax
\* check; at most eight probes are made for a contact.
C17_ProbesInOrder ==
    [][\A c \in Contacts :
        LET before == task[c].probes
            after == task'[c].probes
        IN (after # before /\ after # <<>>) =>
              /\ verify
              /\ task[c].pc = "fe_loop"
              /\ task'[c].pc = "v_entry"
              /\ after = Append(before, task[c].i)
              /\ task[c].i < MaxTried
              /\ task[c].i < Len(Patterns(c))
              /\ \A n \in 1..Len(before) : before[n] < task[c].i
              /\ quick_syntax_check(Patterns(c)[task[c].i + 1])
              /\ task'[c].email = Patterns(c)[task[c].i + 1]
              /\ Len(after) <= MaxTried]_vars

\* one contact has made its eighth probe and waits for the answer; another,
\* whose domain has an underscore, has skipped its first candidates without
\* a probe
C17_Witness ==
    \E c, d \in Contacts :
        /\ Len(task[c].probes) = MaxTried
        /\ task[c].pc = "smtp"
        /\ task[d].pc = "fe_loop"
        /\ task[d].i >= 2
        /\ task[d].probes = <<>>
        /\ ~quick_syntax_check(Patterns(d)[1])

(***************************************************************************)
(* The exchangers of one probe                                             *)
(***************************************************************************)
\* the list holds the exchangers of an answer of DNS, each record once, in
\* ascending preference value, ties broken by host name
InMxOrder(hosts) ==
    \E ans \in MxAnswers : \E recs \in [1..Len(hosts) -> ans] :
        /\ Len(hosts) = Cardinality(ans)
        /\ \A n \in 1..(Len(hosts) - 1) :
              \/ recs[n][1] < recs[n + 1][1]
              \/ recs[n][1] = recs[n + 1][1] /\ recs[n][2] < recs[n + 1][2]
        /\ \A n \in 1..Len(hosts) : hosts[n] = recs[n][2]

\* C18: within one probe the resolved list is in MX order (ascending
\* preference value, ties broken by host name), the n-th attempt is made on
\* the n-th exchanger of the list, at most two attempts are made, the second
\* only after the first ended UNKNOWN, and a host result other than UNKNOWN
\* is the last attempt of the probe and its outcome, without the heuristic.
C18_HostsInMxOrder ==
    \A c \in Contacts :
        LET t == task[c]
        IN /\ InMxOrder(t.mx_hosts)
           /\ Len(t.hostlog) <= 2
           /\ \A n \in 1..Len(t.hostlog) :
                 /\ t.hostlog[n].host = t.mx_hosts[n]
                 /\ n > 1 => t.hostlog[n - 1].result = "UNKNOWN"
                 /\ t.hostlog[n].result # "UNKNOWN" =>
                       /\ n = Len(t.hostlog)
                       /\ t.pc = "v_done"
                       /\ t.vres = t.hostlog[n].result
                       /\ t.fallbacks = 0
           /\ t.pc \in InSession \cup {"smtp", "v_host_result"} =>
                 /\ t.k = Len(t.hostlog)
                 /\ t.k < 2

\* three exchangers, the one of the lowest preference value first; the first
\* attempt ended UNKNOWN, the second INVALID, which is the probe's outcome,
\* and the third exchanger was not contacted
C18_Witness ==
    \E c \in Contacts :
        /\ task[c].mx_hosts = <<3, 1, 2>>
        /\ Len(task[c].hostlog) = 2
        /\ task[c].hostlog[1].host = 3
        /\ task[c].hostlog[1].result = "UNKNOWN"
        /\ task[c].hostlog[2].host = 1
        /\ task[c].hostlog[2].result = "INVALID"
        /\ task[c].pc = "v_done"
        /\ task[c].vres = "INVALID"

\* the reply codes to RCPT TO that the code tells apart from the rest
Recognized == {"250", "550", "551", "552", "553", "554"}

\* a connect failure, a read failure or timeout before the reply to RCPT TO
\* is there, a greeting other than 220, a MAIL FROM reply other than 250, a
\* 450 or 451 or other unrecognized reply to RCPT TO
Inconclusive(h) ==
    \/ h.connect \in {"refused", "timeout"}
    \/ h.greeting # "220"
    \/ h.helo = "-"
    \/ h.mail # "250"
    \/ h.rcpt = "-"
    \/ h.rcpt \in {"450", "451"}
    \/ h.rcpt \notin Recognized

\* such an attempt yields UNKNOWN for its host
C19_InconclusiveIsUnknown ==
    \A c \in Contacts : \A n \in 1..Len(task[c].hostlog) :
        Inconclusive(task[c].hostlog[n]) => task[c].hostlog[n].result = "UNKNOWN"

\* after an UNKNOWN the probe goes on to the next of the top two exchangers:
\* it comes to the heuristic or to its end only when none remains
C19_AdvancesToNext ==
    \A c \in Contacts :
        LET t == task[c]
        IN (/\ t.pc \in {"v_fallback", "v_done"}
            /\ t.hostlog # <<>>
            /\ t.hostlog[Len(t.hostlog)].result = "UNKNOWN") =>
               Len(t.hostlog) = Len(TopHosts(t.mx_hosts))

\* no exchanger is contacted twice within one probe
C19_NoHostTwice ==
    \A c \in Contacts : \A m, n \in 1..Len(task[c].hostlog) :
        m # n => task[c].hostlog[m].host # task[c].hostlog[n].host

\* C19: a host attempt that meets a connect failure, a read failure or
\* timeout, a greeting other than 220, a MAIL FROM reply other than 250, a
\* 450 or 451 or an unrecognized reply to RCPT TO yields UNKNOWN for that
\* host; the probe then goes on to the next of the top two exchangers if one
\* remains, and contacts no exchanger twice within one probe.
C19_UnknownAdvances ==
    /\ C19_InconclusiveIsUnknown
    /\ C19_AdvancesToNext
    /\ C19_NoHostTwice

\* C20: a probe whose MX lookup has failed or given no records opens no
\* connection and returns the outcome of the MX-only heuristic.
C20_NoMxGivesHeuristic ==
    \A c \in Contacts :
        LET t == task[c]
        IN (/\ t.pc = "v_done"
            /\ HasAt(t.email)
            /\ t.mx_hosts = <<>>) =>
               /\ "connect" \notin t.netops
               /\ t.hostlog = <<>>
               /\ t.fallbacks = 1
               /\ t.vres = t.heuristic

(***************************************************************************)
(* The precedence of find_domain                                           *)
(***************************************************************************)
\* DNS has an MX or an A record for the domain
Verified(rec) == rec \in {"MX", "A"}

\* C21: a find_domain call that has missed the cache returns its guess when
\* DNS verifies it, and then makes no web search; otherwise the domain found
\* by the search when there is one and DNS verifies it; otherwise the guess,
\* unverified; otherwise nothing.  A searched domain that DNS does not verify
\* is not what the call returns: it returns the guess, or nothing.
C21_Precedence ==
    \A c \in Contacts :
        LET t == task[c]
        IN (t.pc = "fd_done" /\ ~t.cached /\ Strip(t.company) # <<>>) =>
            /\ t.guessed = guess_domain_from_name(t.company)
            /\ (t.guess_dns = None) = (t.guessed = <<>>)
            /\ IF Verified(t.guess_dns)
               THEN /\ t.domain = t.guessed
                    /\ "web" \notin t.netops
                    /\ t.searched = <<>>
                    /\ t.searched_dns = None
               ELSE /\ "web" \in t.netops
                    /\ (t.searched_dns = None) = (t.searched = <<>>)
                    /\ IF t.searched # <<>> /\ Verified(t.searched_dns)
                       THEN t.domain = t.searched
                       ELSE t.domain = t.guessed

\* DNS has verified neither the guess abc.com nor the searched abc.io, and
\* the guess is returned
C21_Witness ==
    \E c \in Contacts :
        /\ task[c].pc = "fd_done"
        /\ ~task[c].cached
        /\ task[c].guess_dns = "none"
        /\ task[c].searched = <<"a","b","c",".","i","o">>
        /\ task[c].searched_dns = "none"
        /\ task[c].domain = <<"a","b","c",".","c","o","m">>

(***************************************************************************)
(* The end of the loop without a hit                                       *)
(***************************************************************************)
\* C22: with verification enabled, an INVALID or UNKNOWN outcome of a probe
\* does not end the loop of the contact: the contact sleeps and goes on with
\* the next candidate; the contact returns not_found, without found_email,
\* exactly when it is at the head of the loop with every attempted candidate
\* behind it.
C22_NotFoundWhenExhausted ==
    [][\A c \in Contacts :
        LET t == task[c]
            u == task'[c]
        IN /\ (t.pc = "v_done" /\ t.vres \in {"INVALID", "UNKNOWN"} /\ u # t) =>
                 /\ u.pc = "fe_sleep"
                 /\ u.i = t.i
                 /\ u.domain = t.domain
           /\ (t.pc = "fe_sleep" /\ u # t) =>
                 /\ u.pc = "fe_loop"
                 /\ u.i = t.i + 1
                 /\ u.domain = t.domain
           /\ (t.pc = "fe_loop" /\ u # t /\ t.i >= Len(Tried(Patterns(c)))) =>
                 /\ verify
                 /\ u.pc = "fe_return"
                 /\ u.result.verification_status = "not_found"
                 /\ u.result.found_email = <<>>
           /\ (u.pc = "fe_return" /\ t.pc # "fe_return"
                 /\ u.result.verification_status = "not_found") =>
                 /\ t.pc = "fe_loop"
                 /\ t.i = Len(Tried(Patterns(c)))]_vars

\* a contact not found after the probes of its eight candidates, which met
\* exchangers, and another after eight candidates skipped for their syntax
C22_Witness ==
    \E c, d \in Contacts :
        /\ task[c].pc = "fe_return"
        /\ task[c].result.verification_status = "not_found"
        /\ task[c].result.found_email = <<>>
        /\ task[c].result.patterns_tried = MaxTried
        /\ DomainOf(<<"@">> \o task[c].result.domain) \in DOMAIN mx_cache
        /\ task[d].pc \in {"returned", "collected"}
        /\ task[d].result.verification_status = "not_found"
        /\ ~quick_syntax_check(<<"a", "@">> \o task[d].result.domain)

(***************************************************************************)
(* Verification disabled                                                   *)
(***************************************************************************)
\* where a contact is in its loop over the candidates or in a probe
InLoop == {"fe_loop", "fe_sleep", "v_entry", "v_resolve", "v_hosts", "smtp",
           "v_host_result", "v_fallback", "v_done"}

\* no probe was made, no list of exchangers looked up, no connection opened
NothingProbed ==
    /\ mx_cache = EmptyMap
    /\ \A c \in Contacts :
          /\ task[c].pc \notin InLoop
          /\ task[c].probes = <<>>
          /\ task[c].hostlog = <<>>
          /\ "connect" \notin task[c].netops

\* C23: with verification disabled, a contact with a domain and a list of
\* patterns that is not empty returns unverified with element 0 of the list
\* as found_email, and the run makes no probe, no lookup of exchangers and
\* no SMTP connection.
C23_UnverifiedFirstPattern ==
    [][~verify =>
         /\ NothingProbed
         /\ NothingProbed'
         /\ \A c \in Contacts :
               (/\ task[c].pc = "fd_done"
                /\ task[c].domain # <<>>
                /\ Patterns(c) # <<>>
                /\ task'[c] # task[c]) =>
                   /\ task'[c].pc = "fe_return"
                   /\ task'[c].result.verification_status = "unverified"
                   /\ task'[c].result.found_email = Patterns(c)[1]
                   /\ task'[c].result.domain = task[c].domain]_vars

\* a contact returned unverified with the first pattern at its domain
C23_Witness ==
    \E c \in Contacts :
        /\ ~verify
        /\ task[c].pc = "fe_return"
        /\ task[c].result.verification_status = "unverified"
        /\ task[c].result.domain = <<"a","b","c",".","i","o">>
        /\ task[c].result.found_email =
               <<"a",".","b","@","a","b","c",".","i","o">>

(***************************************************************************)
(* The delay between the probes of a contact                               *)
(***************************************************************************)
\* C24: when a contact starts a probe, every probe it has made before was
\* followed by a delay that has elapsed: as many delays as earlier probes;
\* and while a probe is in progress or the contact sleeps, the delay after
\* the latest probe has not been counted yet.
C24_DelayBetweenProbes ==
    [][\A c \in Contacts :
        LET t == task[c]
            u == task'[c]
        IN /\ (u.probes # t.probes /\ u.probes # <<>>) =>
                 /\ t.sleeps = Len(t.probes)
                 /\ u.sleeps = t.sleeps
           /\ (u.sleeps # t.sleeps /\ u.sleeps # 0) =>
                 /\ t.pc = "fe_sleep"
                 /\ cur = NoTask
                 /\ u.sleeps = t.sleeps + 1
                 /\ u.sleeps = Len(u.probes)]_vars

\* a contact starts its third probe after two delays
C24_Witness ==
    \E c \in Contacts :
        /\ task[c].pc = "v_entry"
        /\ Len(task[c].probes) = 3
        /\ task[c].sleeps = 2

(***************************************************************************)
(* The results that are not saved yet                                      *)
(***************************************************************************)
\* the contacts whose result exists
Completed ==
    Cardinality({c \in DOMAIN task : task[c].pc \in {"returned", "collected"}})

\* fewer results than the interval wait in the list of the loop for a save
C25_CollectedBelowInterval ==
    Len(results) - saved < CheckpointEvery

\* after the run every result is saved
C25_AllSavedAtEnd ==
    runpc = "done" => (saved = Len(contacts) /\ Len(results) = Len(contacts))

\* C25: during a run the results of completed contacts that are not saved
\* yet are fewer than the checkpoint interval, and after the run every
\* result is saved.
C25_UnsavedBelowInterval ==
    /\ Completed - saved < CheckpointEvery
    /\ C25_AllSavedAtEnd

\* the checkpoint has written the first fifty results and one more waits
C25_CheckpointFired ==
    saved = CheckpointEvery /\ Len(results) = CheckpointEvery + 1

(***************************************************************************)
(* Termination of a probe.  Every await of the dialogue ends: the connect  *)
(* and the reads by asyncio.wait_for after the timeout at the latest, and  *)
(* drain() and wait_closed() at once, the few bytes of a command never     *)
(* filling the write buffer of the transport.  The event loop runs a       *)
(* coroutine that is ready.  So every step of a probe that is under way    *)
(* is taken in the end.                                                    *)
(***************************************************************************)
ProbeProgress ==
    \E c \in Contacts :
        \/ V_Entry(c)
        \/ \E ans \in MxAnswers : V_ResolveMX(c, ans)
        \/ V_NextHost(c)
        \/ \E ev \in ConnectEvents : S_Connect(c, ev)
        \/ \E ev \in GreetingEvents, dr \in DrainEvents : S_Greeting(c, ev, dr)
        \/ \E ev \in HeloEvents, dr \in DrainEvents : S_Helo(c, ev, dr)
        \/ \E ev \in MailEvents, dr \in DrainEvents : S_MailFrom(c, ev, dr)
        \/ \E ev \in RcptEvents, dr \in DrainEvents : S_RcptTo(c, ev, dr)
        \/ \E ev \in FakeEvents : S_CatchAll(c, ev)
        \/ \E dr \in DrainEvents : S_Finally(c, dr)
        \/ V_HostResult(c)
        \/ \E ans \in MxAnswers : V_Fallback(c, ans)

SpecProbeFair == InitProbe /\ [][NextProbe]_vars /\ WF_vars(ProbeProgress)

\* the server has stopped responding in the session that has ended: the
\* connect or a read has met the timeout
TimedOut(t) ==
    t.connect = "timeout" \/ \E n \in 1..Len(t.rcvd) : t.rcvd[n] = "timeout"

\* a host attempt that met the timeout yields UNKNOWN
C26_TimeoutIsUnknown ==
    \A c \in Contacts :
        (task[c].pc = "v_host_result" /\ TimedOut(task[c])) =>
            task[c].hres = "UNKNOWN"

\* a probe that is called returns
C26_ProbeReturns ==
    \A c \in Contacts : (task[c].pc = "v_entry") ~> (task[c].pc = "v_done")

\* C26: every probe terminates; when the server stops responding at a step
\* of the dialogue, the step is left after the timeout, the host attempt
\* yields UNKNOWN, and verify_email_smtp returns in the end.
C26_ProbeTerminates ==
    /\ []C26_TimeoutIsUnknown
    /\ C26_ProbeReturns

(***************************************************************************)
(* The statistics of a run                                                 *)
(***************************************************************************)
\* the contacts for which find_email_for_contact has returned this status
WithStatus(status) ==
    Cardinality({c \in DOMAIN task :
                    /\ task[c].pc \in {"fe_return", "returned", "collected"}
                    /\ task[c].result.verification_status = status})

\* C27: every contact is counted once, by its status: verified in verified
\* and found, catch_all in catch_all and found, unverified in found,
\* no_domain in no_domain, not_found in no_match.  So found = verified +
\* catch_all in a run that verifies, and after the run found + no_domain +
\* no_match is the number of results that are neither missing_data nor
\* no_patterns.
C27_StatsFollowStatus ==
    /\ stats.verified = WithStatus("verified")
    /\ stats.catch_all = WithStatus("catch_all")
    /\ stats.found = WithStatus("verified") + WithStatus("catch_all")
                        + WithStatus("unverified")
    /\ stats.no_domain = WithStatus("no_domain")
    /\ stats.no_match = WithStatus("not_found")
    /\ verify => stats.found = stats.verified + stats.catch_all
    /\ runpc = "done" =>
          stats.found + stats.no_domain + stats.no_match =
              Cardinality({n \in 1..Len(results) :
                  results[n].verification_status \notin
                      {"missing_data", "no_patterns"}})

\* a finished run of two contacts at once, one verified, the other without
\* a match after its probes
C27_Witness ==
    /\ runpc = "done"
    /\ concurrency = 2
    /\ stats.verified = 1 /\ stats.found = 1 /\ stats.no_match = 1
    /\ \E n \in 1..Len(results) : results[n].verification_status = "not_found"

(***************************************************************************)
(* The probe whose host attempts all end UNKNOWN                           *)
(***************************************************************************)
\* the domain has MX records, and each of the hosts tried gave UNKNOWN
AllUnknown(t) ==
    /\ t.mx_hosts # <<>>
    /\ Len(t.hostlog) = Len(TopHosts(t.mx_hosts))
    /\ \A n \in 1..Len(t.hostlog) : t.hostlog[n].result = "UNKNOWN"

\* such a probe returns VALID, by the heuristic, from the list in mx_cache
C28_FallbackIsValid ==
    \A c \in Contacts :
        LET t == task[c]
        IN (t.pc = "v_done" /\ AllUnknown(t)) =>
              /\ t.vres = "VALID"
              /\ t.fallbacks = 1
              /\ t.heuristic = "VALID"
              /\ DomainOf(t.email) \in DOMAIN mx_cache
              /\ mx_cache[DomainOf(t.email)] = t.mx_hosts

\* the contact returns with that candidate, verified; when the probe is the
\* first of the contact, the candidate is the first with a valid syntax
C28_ReportedVerified ==
    \A c \in Contacts :
        LET t == task[c]
        IN (t.pc = "v_done" /\ AllUnknown(t) /\ task'[c] # t) =>
              /\ task'[c].pc = "fe_return"
              /\ task'[c].result.verification_status = "verified"
              /\ task'[c].result.found_email = t.email
              /\ task'[c].result.patterns_tried = t.i + 1
              /\ t.email = Patterns(c)[t.i + 1]
              /\ quick_syntax_check(t.email)
              /\ Len(t.probes) = 1 =>
                    \A n \in 1..t.i : ~quick_syntax_check(Patterns(c)[n])

C29_DecidedOutcomeReturned ==
    \A c \in Contacts :
        (/\ task[c].pc = "v_host_result"
         /\ task[c].pending \in {"VALID", "INVALID", "CATCH_ALL"}) =>
              task[c].hres = task[c].pending

(***************************************************************************)
(* The results of find_email_for_contact                                   *)
(***************************************************************************)
\* the contacts for which find_email_for_contact has returned
HasResult(c) == task[c].pc \in {"fe_return", "returned", "collected"}

\* C30: in every result, found_email is present exactly for the statuses
\* verified, catch_all and unverified; domain is absent exactly for
\* missing_data and no_domain; patterns_tried is 0 for missing_data,
\* no_domain and no_patterns, 1 for unverified and from 1 to 8 otherwise;
\* and a found_email is one of the first eight patterns generated from the
\* names of the contact and the domain of the result.
C30_ResultWellFormed ==
    \A c \in Contacts :
        HasResult(c) =>
            LET r == task[c].result
                status == r.verification_status
            IN /\ status \in {"missing_data", "no_domain", "no_patterns",
                              "unverified", "verified", "catch_all", "not_found"}
               /\ (r.found_email # <<>>) <=>
                      (status \in {"verified", "catch_all", "unverified"})
               /\ (r.domain = <<>>) <=> (status \in {"missing_data", "no_domain"})
               /\ status \in {"missing_data", "no_domain", "no_patterns"} =>
                      r.patterns_tried = 0
               /\ status = "unverified" => r.patterns_tried = 1
               /\ status \in {"verified", "catch_all", "not_found"} =>
                      r.patterns_tried \in 1..MaxTried
               /\ r.found_email # <<>> =>
                      LET patterns == generate_email_patterns(Row(c).first_name,
                                          Row(c).last_name, r.domain)
                      IN \E n \in 1..Len(Tried(patterns)) :
                             patterns[n] = r.found_email

\* a finished run: one contact without a match after eight candidates, the
\* other with a domain and no pattern
C30_Witness ==
    /\ runpc = "done"
    /\ \E n \in 1..Len(results) :
          /\ results[n].verification_status = "not_found"
          /\ results[n].patterns_tried = MaxTried
    /\ \E n \in 1..Len(results) :
          /\ results[n].verification_status = "no_patterns"
          /\ results[n].domain # <<>>

(***************************************************************************)
(* The reply to the synthetic RCPT TO that is not obtained                 *)
(***************************************************************************)
\* the target RCPT TO was accepted with 250, the synthetic RCPT TO was
\* written, and its reply was not obtained: the flush failed, or the read
\* met the timeout, or the connection was dropped, or the reply was short
FakeReplyMissing(t) ==
    /\ Len(t.rcvd) >= 4
    /\ t.rcvd[4] = "250"
    /\ \E n \in 1..Len(t.sent) : t.sent[n] = "RCPT TO fake"
    /\ \/ Len(t.rcvd) = 4
       \/ Len(t.rcvd) = 5 /\ t.rcvd[5] \in {"timeout", "reset", "short"}

\* the try block then decides VALID
C31_DecidesValid ==
    \A c \in Contacts :
        (task[c].pc \in {"smtp_finally", "v_host_result"}
            /\ FakeReplyMissing(task[c])) => task[c].pending = "VALID"

\* C31: when the target RCPT TO was accepted with 250 and the reply to the
\* synthetic RCPT TO is not obtained (timeout, connection dropped, write
\* error, short reply), the host outcome is VALID.
C31_MissingFakeReplyIsValid ==
    \A c \in Contacts :
        (task[c].pc = "v_host_result" /\ FakeReplyMissing(task[c])) =>
            task[c].hres = "VALID"

(***************************************************************************)
(* The commands of a session                                               *)
(***************************************************************************)
CommandOrder == <<"HELO", "MAIL FROM", "RCPT TO", "RCPT TO fake">>

Sent(t, cmd) == \E n \in 1..Len(t.sent) : t.sent[n] = cmd

\* C32: the commands of a session are HELO, MAIL FROM, RCPT TO for the
\* target, RCPT TO for the synthetic address and QUIT, in this order, the
\* session ending at any of them with QUIT; the target RCPT TO follows a 220
\* greeting and a 250 to MAIL FROM, whatever the reply to HELO; the synthetic
\* RCPT TO follows a 250 to the target RCPT TO; no more than two RCPT TO
\* and no DATA are sent.
C32_CommandOrder ==
    \A c \in Contacts :
        LET t == task[c]
        IN /\ Len(t.sent) <= Len(CommandOrder) + 1
           /\ \A n \in 1..Len(t.sent) :
                 \/ n <= Len(CommandOrder) /\ t.sent[n] = CommandOrder[n]
                 \/ n = Len(t.sent) /\ t.sent[n] = "QUIT"
           /\ Sent(t, "RCPT TO") =>
                 /\ Len(t.rcvd) >= 3
                 /\ t.rcvd[1] = "220"
                 /\ t.rcvd[3] = "250"
           /\ Sent(t, "RCPT TO fake") =>
                 /\ Len(t.rcvd) >= 4
                 /\ t.rcvd[4] = "250"
           /\ ~Sent(t, "DATA")

\* a session with the five commands, where HELO was answered 550
C32_Witness ==
    \E c \in Contacts :
        /\ task[c].pc = "v_host_result"
        /\ task[c].sent = Append(CommandOrder, "QUIT")
        /\ task[c].rcvd[2] = "550"
        /\ task[c].hres = "CATCH_ALL"

(***************************************************************************)
(* Termination of a run.  Every await of a contact ends (the DNS queries,  *)
(* the web search and the probes return, the sleep is over after its       *)
(* delay), the event loop runs a coroutine that is ready, and a release of *)
(* the semaphore wakes a task that waits for it: a step that can be taken  *)
(* is taken in the end.  The steps FD_Entry, FE_AfterDomain, FE_LoopHead   *)
(* and FE_ProbeResult are computations of the running coroutine between   *)
(* two awaits, which end: the coroutine does not stay at them.             *)
(***************************************************************************)
RunProgress ==
    \/ ProcessCsv
    \/ Finish
    \/ \E c \in Contacts :
        \/ TaskStart(c)
        \/ TaskWake(c)
        \/ FE_Entry(c)
        \/ \E rec \in DnsRecords : FD_VerifyGuess(c, rec)
        \/ \E response \in Responses : FD_SearchReturn(c, response)
        \/ \E rec \in DnsRecords : FD_VerifySearched(c, rec)
        \/ FD_Fallback(c)
        \/ V_Entry(c)
        \/ \E ans \in RunMxAnswers : V_ResolveMX(c, ans)
        \/ V_NextHost(c)
        \/ \E ev \in CheckSmtpEvents : CheckSmtp(c, ev)
        \/ V_HostResult(c)
        \/ \E ans \in RunMxAnswers : V_Fallback(c, ans)
        \/ FE_SleepDone(c)
        \/ TaskReturn(c)
        \/ Collect(c)

AtComputation(c) ==
    cur = c /\ task[c].pc \in {"fd_entry", "fd_done", "fe_loop", "v_done"}

SpecRunFair ==
    /\ InitRun
    /\ [][NextRun]_vars
    /\ WF_vars(RunProgress)
    /\ \A c \in Contacts : []<>~AtComputation(c)

\* the run is over: the final save is made, with one result for each row,
\* and every slot of the semaphore is free again
RunComplete ==
    /\ runpc = "done"
    /\ Len(results) = Len(contacts)
    /\ saved = Len(contacts)
    /\ \A c \in Contacts : \E n \in 1..Len(results) : results[n].idx = c
    /\ semaphore = concurrency

\* C33: with a bound of at least 1, every contact is completed in the end:
\* the slot a contact holds is released on every way out, no contact waits
\* for ever, and the run reaches the final save with one result for each
\* row.
C33_RunCompletes ==
    /\ [](runpc = "done" => RunComplete)
    /\ \A c \in Contacts :
          (task[c].pc = "waiting") ~> (task[c].pc = "collected")
    /\ <>RunComplete

\* a finished run in which a contact has waited for the semaphore: the
\* bound is 1 and both contacts were probed
C33_Witness ==
    /\ RunComplete
    /\ concurrency = 1
    /\ verify
    /\ \A n \in 1..Len(results) :
          results[n].verification_status \in {"verified", "not_found"}
====
